---------------------------- MODULE Spec2Model ----------------------------
(***************************************************************************)
(* Half-edge BREP editing: the vertex-deletion operator of EditModeManager *)
(* (half-edge variant, src/unnamed/part_000, and position/cell variant,    *)
(* src/src/editModeManager.js) on the meshes built by create.js.           *)
(*                                                                         *)
(* Objects (Vertex, Edge, HalfEdge, Face) live in per-mesh arenas V, E, H, *)
(* F addressed by identifiers 1..n; 0 stands for null/undefined.  The      *)
(* arrays brep.vertices/edges/halfEdges/faces hold identifiers, so that an *)
(* object removed from its array still exists and can still be referenced, *)
(* exactly as in the JavaScript heap.  Array indices stored in objects     *)
(* (getIndex) are 0-based as in the source; TLA+ sequences are 1-based.    *)
(*                                                                         *)
(* Coordinates are integers (the source's example data is integral);       *)
(* floating-point comparisons |a - b| < 0.001 on integers are equality.    *)
(***************************************************************************)
EXTENDS Integers, Sequences, FiniteSets, TLC

\* ------------------------------------------------------------------ bounds
\* number of handleVertexSelection calls explored per behaviour, half-edge variant
MaxCalls == 2
\* the same for the position/cell variant
MaxCellCalls == 4
\* how many of the example shapes of create.js the initial state draws from
NumShapes == 3
\* number of tessellate calls made on one Tessellator instance
MaxTessCalls == 3
\* the geometry functions are called on at most MaxPoints points, whose
\* coordinates are the integers 0..GridMax
MaxPoints == 4
GridMax == 1

\* how far the user turns and zooms the camera, in degrees and units of radius
MaxCameraMove == 1

\* ------------------------------------------------------------- generic helpers
Abs(x) == IF x < 0 THEN -x ELSE x

Sgn(x) == IF x < 0 THEN -1 ELSE IF x > 0 THEN 1 ELSE 0

RECURSIVE Gcd(_, _)
Gcd(a, b) == IF b = 0 THEN Abs(a) ELSE Gcd(b, a % Abs(b))

Range(s) == { s[i] : i \in DOMAIN s }

\* Array.prototype.filter
RECURSIVE FilterSeq(_, _)
FilterSeq(s, keep) ==
  IF s = <<>> THEN <<>>
  ELSE (IF Head(s) \in keep THEN <<Head(s)>> ELSE <<>>) \o FilterSeq(Tail(s), keep)

\* Array.prototype.indexOf, 1-based; 0 when absent
RECURSIVE IndexOfFrom(_, _, _)
IndexOfFrom(s, x, i) ==
  IF i > Len(s) THEN 0 ELSE IF s[i] = x THEN i ELSE IndexOfFrom(s, x, i + 1)

IndexOf(s, x) == IndexOfFrom(s, x, 1)

\* insertion-ordered Set: append when absent
SetAdd(s, x) == IF x \in Range(s) THEN s ELSE Append(s, x)

RECURSIVE SetAddAll(_, _)
SetAddAll(s, xs) == IF xs = <<>> THEN s ELSE SetAddAll(SetAdd(s, Head(xs)), Tail(xs))

\* ------------------------------------------------------------- vectors
VSub(a, b) == << a[1] - b[1], a[2] - b[2], a[3] - b[3] >>

VAdd(a, b) == << a[1] + b[1], a[2] + b[2], a[3] + b[3] >>

VScale(a, k) == << a[1] * k, a[2] * k, a[3] * k >>

VDot(a, b) == a[1] * b[1] + a[2] * b[2] + a[3] * b[3]

VCross(a, b) ==
  << a[2] * b[3] - a[3] * b[2], a[3] * b[1] - a[1] * b[3], a[1] * b[2] - a[2] * b[1] >>

VZero == << 0, 0, 0 >>

\* A positive multiple of the vector with coprime components: the direction of
\* Vector3.normalize() (which leaves a zero vector unchanged).
VDir(a) ==
  LET g == Gcd(Gcd(a[1], a[2]), a[3])
  IN IF g = 0 THEN a ELSE << a[1] \div g, a[2] \div g, a[3] \div g >>

RECURSIVE VSum(_)
VSum(ps) == IF ps = <<>> THEN VZero ELSE VAdd(Head(ps), VSum(Tail(ps)))


\* ------------------------------------------------------------- geometry utilities
\* (0,1,0): the default up vector
UpVector == << 0, 1, 0 >>

\* first i in from..Len(ps) with ps[i] # p0 (Vector3.Distance(point1, testPoint) > 0.001)
RECURSIVE FirstDistinct(_, _)
FirstDistinct(ps, i) ==
  IF i > Len(ps) THEN 0
  ELSE IF ps[i] # ps[1] THEN i ELSE FirstDistinct(ps, i + 1)

\* first i with cross(p2 - p0, ps[i] - p0) of length > 0.001
RECURSIVE FirstNonCollinear(_, _, _)
FirstNonCollinear(ps, i2, i) ==
  IF i > Len(ps) THEN 0
  ELSE IF VCross(VSub(ps[i2], ps[1]), VSub(ps[i], ps[1])) # VZero THEN i
  ELSE FirstNonCollinear(ps, i2, i + 1)

\* the normal of the first three points, without the search for usable ones
calculatePlaneNormalFirstThree(ps) ==
  IF Len(ps) < 3 THEN UpVector
  ELSE IF VCross(VSub(ps[2], ps[1]), VSub(ps[3], ps[1])) = VZero THEN UpVector
  ELSE VDir(VCross(VSub(ps[2], ps[1]), VSub(ps[3], ps[1])))

\* calculatePlaneNormal: the direction of the returned unit vector
calculatePlaneNormal(ps) ==
  IF Len(ps) < 3 THEN UpVector
  ELSE LET i2 == FirstDistinct(ps, 2)
           i3 == IF i2 = 0 THEN 0 ELSE FirstNonCollinear(ps, i2, 2)
       IN IF i2 = 0 \/ i3 = 0 THEN UpVector
          ELSE VDir(VCross(VSub(ps[i2], ps[1]), VSub(ps[i3], ps[1])))

RECURSIVE GcdSeq(_)
GcdSeq(s) == IF s = <<>> THEN 0 ELSE Gcd(Head(s), GcdSeq(Tail(s)))

\* The quadrant class of Math.atan2(y, x), ascending with the angle.  A point on
\* the negative x axis has y = 0 only up to rounding: atan2 gives +pi or -pi there,
\* which `wrap` chooses.
AngleClass(x, y, wrap) ==
  IF y < 0 THEN 1
  ELSE IF y > 0 THEN 3
  ELSE IF x >= 0 THEN 2
  ELSE IF wrap THEN 0 ELSE 4

\* a.angle - b.angle < 0 for a = <<x, y>>, b = <<x, y>>
AngleLess(a, b, wrap) ==
  LET ca == AngleClass(a[1], a[2], wrap)
      cb == AngleClass(b[1], b[2], wrap)
  IN \/ ca < cb
     \/ ca = cb /\ ca \in {1, 3} /\ a[1] * b[2] - b[1] * a[2] > 0

\* Array.prototype.sort with a consistent comparator: stable, ascending.
\* items are << index, << x, y >> >>
RECURSIVE InsertByAngle(_, _, _)
InsertByAngle(sorted, it, wrap) ==
  IF sorted = <<>> THEN << it >>
  ELSE LET last == sorted[Len(sorted)]
       IN IF AngleLess(it[2], last[2], wrap)
          THEN Append(InsertByAngle(SubSeq(sorted, 1, Len(sorted) - 1), it, wrap), last)
          ELSE Append(sorted, it)

RECURSIVE SortByAngle(_, _)
SortByAngle(items, wrap) ==
  IF items = <<>> THEN <<>>
  ELSE InsertByAngle(SortByAngle(SubSeq(items, 1, Len(items) - 1), wrap),
                     items[Len(items)], wrap)

\* the indices in their given order, each kept once
orderVerticesByAngleOnce(vertexIndices, positions, wrap) == SetAddAll(<<>>, vertexIndices)

\* orderVerticesByAngle(vertexIndices, positions): indices are 0-based
orderVerticesByAngle(vertexIndices, positions, wrap) ==
  IF Len(vertexIndices) < 3 THEN vertexIndices
  ELSE
    LET n == Len(vertexIndices)
        vertexPositions == [ i \in 1..n |-> positions[vertexIndices[i] + 1] ]
        normal == calculatePlaneNormal(vertexPositions)
        sum == VSum(vertexPositions)
        \* n * (pos - centroid)
        rel == [ i \in 1..n |-> VSub(VScale(vertexPositions[i], n), sum) ]
        basisX == VDir(rel[1])
        basisY == VDir(VCross(normal, basisX))
        xs == [ i \in 1..n |-> VDot(rel[i], basisX) ]
        ys == [ i \in 1..n |-> VDot(rel[i], basisY) ]
        gx == GcdSeq(xs)
        gy == GcdSeq(ys)
        items == [ i \in 1..n |->
                    << vertexIndices[i],
                       << IF gx = 0 THEN 0 ELSE xs[i] \div gx,
                          IF gy = 0 THEN 0 ELSE ys[i] \div gy >> >> ]
        sorted == SortByAngle(items, wrap)
    IN [ i \in 1..n |-> sorted[i][1] ]


\* ------------------------------------------------------------- the mesh (mda Mesh)
\* new Mesh(): empty arrays, empty arenas, empty edge map
EmptyEdgeMap == [ k \in {} |-> 0 ]

BrepMesh ==
  [ positions |-> <<>>, cells |-> <<>>,
    vertices |-> <<>>, edges |-> <<>>, halfEdges |-> <<>>, faces |-> <<>>,
    edgeMap |-> EmptyEdgeMap,
    V |-> <<>>, E |-> <<>>, H |-> <<>>, F |-> <<>> ]

EdgeKey(a, b) == IF a <= b THEN << a, b >> ELSE << b, a >>

\* Mesh.getEdge(a, b): the edge recorded in the edge map between vertex indices a, b
getEdge(brep, a, b) ==
  IF EdgeKey(a, b) \in DOMAIN brep.edgeMap THEN brep.edgeMap[EdgeKey(a, b)] ELSE 0

EdgeMapPut(m, a, b, e) ==
  [ k \in DOMAIN m \cup { EdgeKey(a, b) } |-> IF k = EdgeKey(a, b) THEN e ELSE m[k] ]

\* One half-edge of Mesh.process(): cell number c (1-based), corner j, whose
\* half-edges start after `base` in the arena and whose face is f.  The library
\* gives a vertex one of its outgoing half-edges: the first one made when
\* keepFirst, the last one otherwise.
ProcessCorner(b, cell, j, base, f, keepFirst) ==
  LET L == Len(cell)
      a == cell[j]
      nx == cell[(j % L) + 1]
      id == base + j
      known == getEdge(b, a, nx)
      e == IF known # 0 THEN known ELSE Len(b.E) + 1
      flip == IF known # 0 THEN b.E[known].halfEdge ELSE 0
      he == [ vertex |-> a + 1, edge |-> e, face |-> f,
              next |-> base + (j % L) + 1, flip |-> flip ]
      H1 == Append(b.H, he)
      H2 == IF flip # 0 THEN [ H1 EXCEPT ![flip].flip = id ] ELSE H1
  IN [ b EXCEPT
         !.H = H2,
         !.halfEdges = Append(b.halfEdges, id),
         !.E = IF known # 0 THEN b.E
               ELSE Append(b.E, [ index |-> Len(b.edges), halfEdge |-> id ]),
         !.edges = IF known # 0 THEN b.edges ELSE Append(b.edges, e),
         !.edgeMap = IF known # 0 THEN b.edgeMap ELSE EdgeMapPut(b.edgeMap, a, nx, e),
         !.V = IF keepFirst /\ b.V[a + 1].halfEdge # 0 THEN b.V
               ELSE [ b.V EXCEPT ![a + 1].halfEdge = id ] ]

RECURSIVE ProcessCorners(_, _, _, _, _, _)
ProcessCorners(b, cell, j, base, f, keepFirst) ==
  IF j > Len(cell) THEN b
  ELSE ProcessCorners(ProcessCorner(b, cell, j, base, f, keepFirst), cell, j + 1, base, f,
                      keepFirst)

RECURSIVE ProcessCells(_, _, _)
ProcessCells(b, c, keepFirst) ==
  IF c > Len(b.cells) THEN b
  ELSE LET f == Len(b.F) + 1
           base == Len(b.H)
           b1 == [ b EXCEPT !.F = Append(b.F, [ index |-> c - 1, halfEdge |-> base + 1 ]),
                            !.faces = Append(b.faces, f) ]
       IN ProcessCells(ProcessCorners(b1, b.cells[c], 1, base, f, keepFirst), c + 1, keepFirst)

\* every entry of every cell is the index of a position
CellsValid(positions, cells) ==
  \A c \in DOMAIN cells : \A j \in DOMAIN cells[c] : cells[c][j] \in 0..(Len(positions) - 1)

\* setPositions, setCells, process(): [st, brep]; process throws on a cell entry
\* that is no vertex index (vertices[undefined].setHalfEdge)
process(positions, cells, keepFirst) ==
  LET b0 == [ BrepMesh EXCEPT
                !.positions = positions, !.cells = cells,
                !.vertices = [ i \in 1..Len(positions) |-> i ],
                !.V = [ i \in 1..Len(positions) |-> [ index |-> i - 1, halfEdge |-> 0 ] ] ]
  IN IF CellsValid(positions, cells)
     THEN [ st |-> "ok", brep |-> ProcessCells(b0, 1, keepFirst) ]
     ELSE [ st |-> "throw", brep |-> b0 ]

\* ------------------------------------------------------------- mda queries
\* Results are [st, val]: st is "ok", "throw" (a TypeError on undefined) or "hang"
\* (a walk that never returns to its start).
Ok(v) == [ st |-> "ok", val |-> v ]

Throw == [ st |-> "throw", val |-> <<>> ]

Hang == [ st |-> "hang", val |-> <<>> ]

IsHE(b, h) == h \in DOMAIN b.H

\* VertexHalfEdges(vertex): he, he.flip.next, ... until back at vertex.halfEdge
RECURSIVE VertexHalfEdgesFrom(_, _, _, _)
VertexHalfEdgesFrom(b, start, he, acc) ==
  IF ~IsHE(b, he) THEN Throw
  ELSE IF Len(acc) > Len(b.H) THEN Hang
  ELSE LET f == b.H[he].flip
           nx == IF IsHE(b, f) THEN b.H[f].next ELSE 0
       IN IF ~IsHE(b, f) THEN Throw
          ELSE IF nx = start THEN Ok(Append(acc, he))
          ELSE VertexHalfEdgesFrom(b, start, nx, Append(acc, he))

VertexHalfEdges(b, v) == VertexHalfEdgesFrom(b, b.V[v].halfEdge, b.V[v].halfEdge, <<>>)

MapHE(b, r, field) ==
  IF r.st # "ok" THEN r ELSE Ok([ i \in DOMAIN r.val |-> b.H[r.val[i]][field] ])

\* VertexFaces(vertex): the face of every outgoing half-edge
VertexFaces(b, v) == MapHE(b, VertexHalfEdges(b, v), "face")

\* VertexEdges(vertex): the edge of every outgoing half-edge
VertexEdges(b, v) == MapHE(b, VertexHalfEdges(b, v), "edge")

\* VertexNeighbors(vertex): the origin of the flip of every outgoing half-edge
VertexNeighbors(b, v) ==
  LET r == VertexHalfEdges(b, v)
  IN IF r.st # "ok" THEN r
     ELSE Ok([ i \in DOMAIN r.val |-> b.H[b.H[r.val[i]].flip].vertex ])

\* HalfEdgePrev(he): the half-edge whose next is he, found by walking next from he
RECURSIVE HalfEdgePrevFrom(_, _, _, _)
HalfEdgePrevFrom(b, he, cur, n) ==
  IF ~IsHE(b, cur) THEN Throw
  ELSE IF n > Len(b.H) THEN Hang
  ELSE IF b.H[cur].next = he THEN Ok(cur)
  ELSE HalfEdgePrevFrom(b, he, b.H[cur].next, n + 1)

HalfEdgePrev(b, he) == HalfEdgePrevFrom(b, he, he, 0)

\* the loop he, he.next, ... of half-edges until back at he
RECURSIVE LoopFrom(_, _, _, _)
LoopFrom(b, start, cur, acc) ==
  IF ~IsHE(b, cur) THEN Throw
  ELSE IF Len(acc) > Len(b.H) THEN Hang
  ELSE IF b.H[cur].next = start THEN Ok(Append(acc, cur))
  ELSE LoopFrom(b, start, b.H[cur].next, Append(acc, cur))

\* getFaceVertices(face): the origins met walking next from face.halfEdge
getFaceVertices(b, f) ==
  LET r == LoopFrom(b, b.F[f].halfEdge, b.F[f].halfEdge, <<>>)
  IN IF r.st # "ok" THEN r ELSE Ok([ i \in DOMAIN r.val |-> b.H[r.val[i]].vertex ])


\* ------------------------------------------------------------- half-edge variant
\* positions[vertex.getIndex()] is a row (reading [1] of undefined is a TypeError)
HasPos(b, v) == v \in DOMAIN b.V /\ (b.V[v].index + 1) \in DOMAIN b.positions

PosY(b, v) == b.positions[b.V[v].index + 1][2]

\* the first of `vs` with the least Y (sort ascending by Y, stable, then [0])
RECURSIVE LowestFirst(_, _, _, _)
LowestFirst(b, vs, i, best) ==
  IF i > Len(vs) THEN best
  ELSE LowestFirst(b, vs, i + 1,
                   IF best = 0 \/ PosY(b, vs[i]) < PosY(b, best) THEN vs[i] ELSE best)

\* neighbors.filter(v => positions[v.getIndex()][1] < positions[selected][1])
RECURSIVE BelowVertices(_, _, _, _)
BelowVertices(b, sel, vs, i) ==
  IF i > Len(vs) THEN Ok(<<>>)
  ELSE IF ~HasPos(b, vs[i]) \/ ~HasPos(b, sel) THEN Throw
  ELSE LET rest == BelowVertices(b, sel, vs, i + 1)
       IN IF rest.st # "ok" THEN rest
          ELSE Ok((IF PosY(b, vs[i]) < PosY(b, sel) THEN << vs[i] >> ELSE <<>>) \o rest.val)

\* the first neighbour, whatever its Y
findVertexBelowFirstNeighbour(b, selectedVertex) ==
  LET neighbors == VertexNeighbors(b, selectedVertex)
  IN IF neighbors.st # "ok" THEN [ st |-> neighbors.st, val |-> 0 ]
     ELSE [ st |-> "ok", val |-> IF neighbors.val = <<>> THEN 0 ELSE neighbors.val[1] ]

\* findVertexBelow(selectedVertex, brep): [st, val], val = 0 for null
findVertexBelow(b, selectedVertex) ==
  LET neighbors == VertexNeighbors(b, selectedVertex)
      belowVertices == BelowVertices(b, selectedVertex, neighbors.val, 1)
  IN IF neighbors.st # "ok" THEN [ st |-> neighbors.st, val |-> 0 ]
     ELSE IF belowVertices.st # "ok" THEN [ st |-> belowVertices.st, val |-> 0 ]
     ELSE [ st |-> "ok", val |-> LowestFirst(b, belowVertices.val, 1, 0) ]

\* faceVertices.every(v => |positions[v.getIndex()][1] - y| < 0.001)
RECURSIVE EveryAtY(_, _, _, _)
EveryAtY(b, vs, i, y) ==
  IF i > Len(vs) THEN Ok(TRUE)
  ELSE IF ~HasPos(b, vs[i]) THEN Throw
  ELSE IF PosY(b, vs[i]) # y THEN Ok(FALSE)
  ELSE EveryAtY(b, vs, i + 1, y)

\* Array.from(faces).find(face => all its vertices at height y): [st, val]
RECURSIVE FindFaceAtY(_, _, _, _)
FindFaceAtY(b, faces, i, y) ==
  IF i > Len(faces) THEN [ st |-> "ok", val |-> 0 ]
  ELSE IF faces[i] \notin DOMAIN b.F THEN [ st |-> "throw", val |-> 0 ]
  ELSE LET fv == getFaceVertices(b, faces[i])
           ev == IF fv.st = "ok" THEN EveryAtY(b, fv.val, 1, y) ELSE fv
       IN IF fv.st # "ok" THEN [ st |-> fv.st, val |-> 0 ]
          ELSE IF ev.st # "ok" THEN [ st |-> ev.st, val |-> 0 ]
          ELSE IF ev.val THEN [ st |-> "ok", val |-> faces[i] ]
          ELSE FindFaceAtY(b, faces, i + 1, y)

\* VertexHalfEdges(v).find(he => he.getFace() === face); 0 when absent
RECURSIVE FindHEOfFace(_, _, _, _)
FindHEOfFace(b, hes, i, face) ==
  IF i > Len(hes) THEN 0
  ELSE IF b.H[hes[i]].face = face THEN hes[i]
  ELSE FindHEOfFace(b, hes, i + 1, face)

\* The relinking of updateFaceWithoutVertex once halfEdgeToRemove and its two
\* predecessors are known.
RelinkFace(b, face, halfEdgeToRemove, previousHalfEdge, beforePrevious) ==
  LET nextHalfEdge == b.H[halfEdgeToRemove].next
      previousVertex == b.H[previousHalfEdge].vertex
      newEdge == Len(b.E) + 1
      newHalfEdge == Len(b.H) + 1
      H1 == Append(b.H, [ vertex |-> previousVertex, edge |-> newEdge, face |-> face,
                          next |-> 0, flip |-> 0 ])
      H2 == [ H1 EXCEPT ![beforePrevious].next = newHalfEdge ]
      H3 == [ H2 EXCEPT ![newHalfEdge].next = nextHalfEdge ]
  IN [ b EXCEPT
         !.E = Append(b.E, [ index |-> Len(b.edges), halfEdge |-> newHalfEdge ]),
         !.edges = Append(b.edges, newEdge),
         !.H = H3,
         !.halfEdges = Append(b.halfEdges, newHalfEdge),
         !.F = [ b.F EXCEPT ![face].halfEdge = newHalfEdge ],
         !.V = IF previousVertex \in DOMAIN b.V
               THEN [ b.V EXCEPT ![previousVertex].halfEdge = newHalfEdge ] ELSE b.V ]

\* updateFaceWithoutVertex(face, vertexToRemove, brep): [st, b, he];
\* he = 0 is the null return
updateFaceWithoutVertex(b, face, vertexToRemove) ==
  LET hes == VertexHalfEdges(b, vertexToRemove)
      halfEdgeToRemove == IF hes.st = "ok" THEN FindHEOfFace(b, hes.val, 1, face) ELSE 0
      previousHalfEdge == HalfEdgePrev(b, halfEdgeToRemove)
      beforePrevious == HalfEdgePrev(b, previousHalfEdge.val)
  IN IF hes.st # "ok" THEN [ st |-> hes.st, b |-> b, he |-> 0 ]
     ELSE IF halfEdgeToRemove = 0 THEN [ st |-> "ok", b |-> b, he |-> 0 ]
     ELSE IF previousHalfEdge.st # "ok" THEN [ st |-> previousHalfEdge.st, b |-> b, he |-> 0 ]
     ELSE IF beforePrevious.st # "ok" THEN [ st |-> beforePrevious.st, b |-> b, he |-> 0 ]
     ELSE [ st |-> "ok",
            b |-> RelinkFace(b, face, halfEdgeToRemove, previousHalfEdge.val,
                             beforePrevious.val),
            he |-> Len(b.H) + 1 ]


\* allVertexEdges.forEach: each edge, its half-edge and that half-edge's flip
EdgeHalfEdges(b, edges) ==
  UNION { { b.E[e].halfEdge, b.H[b.E[e].halfEdge].flip } : e \in Range(edges) }

\* The forEach over [...vertex1HalfEdges, ...vertex2HalfEdges] (lines 484-506):
\* acc = [st, hes (half-edges to delete), edges (edges to delete), disjoint]
RECURSIVE CollectHalfEdges(_, _, _, _, _, _, _, _)
CollectHalfEdges(b, hes, i, vertex1, vertex2, topFace, bottomFace, acc) ==
  IF i > Len(hes) \/ acc.st # "ok" THEN acc
  ELSE
    LET he == hes[i]
        face == b.H[he].face
        side == face # topFace /\ face # bottomFace
        loop == LoopFrom(b, he, he, <<>>)
        orphanHalfEdge == b.H[b.H[b.H[he].next].next].flip
        collect == /\ orphanHalfEdge # 0
                   /\ b.H[orphanHalfEdge].vertex # vertex1
                   /\ b.H[orphanHalfEdge].vertex # vertex2
        acc1 == [ acc EXCEPT !.hes = acc.hes \cup { he, b.H[he].flip },
                             !.edges = acc.edges \cup { b.H[he].edge } ]
    IN CollectHalfEdges(b, hes, i + 1, vertex1, vertex2, topFace, bottomFace,
         IF ~side THEN acc1
         ELSE IF loop.st # "ok" THEN [ acc1 EXCEPT !.st = loop.st ]
         ELSE [ acc1 EXCEPT
                  !.hes = acc1.hes \cup Range(loop.val),
                  !.disjoint = IF collect THEN SetAdd(acc1.disjoint, orphanHalfEdge)
                               ELSE acc1.disjoint ])

\* brep.getHalfEdge(vStart, vEnd): the first half-edge of brep.halfEdges from
\* vertex index vStart whose next starts at vertex index vEnd; [st, val]
RECURSIVE getHalfEdge(_, _, _, _)
getHalfEdge(b, vStart, vEnd, i) ==
  IF i > Len(b.halfEdges) THEN [ st |-> "ok", val |-> 0 ]
  ELSE LET he == b.halfEdges[i]
           v == b.H[he].vertex
           nx == b.H[he].next
       IN IF v \notin DOMAIN b.V THEN [ st |-> "throw", val |-> 0 ]
          ELSE IF b.V[v].index # vStart THEN getHalfEdge(b, vStart, vEnd, i + 1)
          ELSE IF ~IsHE(b, nx) THEN [ st |-> "throw", val |-> 0 ]
          ELSE IF b.H[nx].vertex \notin DOMAIN b.V THEN [ st |-> "throw", val |-> 0 ]
          ELSE IF b.V[b.H[nx].vertex].index = vEnd THEN [ st |-> "ok", val |-> he ]
          ELSE getHalfEdge(b, vStart, vEnd, i + 1)

\* brep.vertices[vIndex]; 0 when undefined
VertexAt(b, vIndex) == IF (vIndex + 1) \in DOMAIN b.vertices THEN b.vertices[vIndex + 1] ELSE 0

\* lines 543-560: the new half-edge is paired with the half-edge found from
\* nextVIndex to vIndex, or with a flip made for it
CapFlip(b1, newHalfEdge, edge, nextVIndex, existingFlipHE) ==
  IF existingFlipHE.st # "ok"
  THEN [ st |-> existingFlipHE.st, b |-> b1, previousHE |-> newHalfEdge ]
  ELSE IF existingFlipHE.val # 0
  THEN [ st |-> "ok",
         b |-> [ b1 EXCEPT !.H = [ b1.H EXCEPT ![newHalfEdge].flip = existingFlipHE.val,
                                               ![existingFlipHE.val].flip = newHalfEdge ] ],
         previousHE |-> newHalfEdge ]
  ELSE [ st |-> "ok",
         b |-> [ b1 EXCEPT
                   !.H = Append([ b1.H EXCEPT ![newHalfEdge].flip = Len(b1.H) + 1 ],
                                [ vertex |-> VertexAt(b1, nextVIndex), edge |-> edge,
                                  face |-> 0, next |-> 0, flip |-> newHalfEdge ]),
                   !.halfEdges = Append(b1.halfEdges, Len(b1.H) + 1) ],
         previousHE |-> newHalfEdge ]

\* One iteration of orderedVertexIndices.forEach (lines 525-561).
\* w = [st, b, previousHE]
CapStep(w, ordered, i, newFace) ==
  LET b == w.b
      vIndex == ordered[i]
      nextVIndex == ordered[(i % Len(ordered)) + 1]
      known == getEdge(b, vIndex, nextVIndex)
      edge == IF known # 0 THEN known ELSE Len(b.E) + 1
      E1 == IF known # 0 THEN b.E
            ELSE Append(b.E, [ index |-> Len(b.edges), halfEdge |-> 0 ])
      edges1 == IF known # 0 THEN b.edges ELSE Append(b.edges, edge)
      newHalfEdge == Len(b.H) + 1
      H1 == Append(b.H, [ vertex |-> VertexAt(b, vIndex), edge |-> edge, face |-> newFace,
                          next |-> 0, flip |-> 0 ])
      H2 == IF w.previousHE # 0 THEN [ H1 EXCEPT ![w.previousHE].next = newHalfEdge ] ELSE H1
      b1 == [ b EXCEPT !.E = [ E1 EXCEPT ![edge].halfEdge = newHalfEdge ],
                       !.edges = edges1,
                       !.H = H2,
                       !.halfEdges = Append(b.halfEdges, newHalfEdge) ]
  IN CapFlip(b1, newHalfEdge, edge, nextVIndex, getHalfEdge(b1, nextVIndex, vIndex, 1))

RECURSIVE CapLoop(_, _, _, _)
CapLoop(w, ordered, i, newFace) ==
  IF i > Len(ordered) \/ w.st # "ok" THEN w
  ELSE CapLoop(CapStep(w, ordered, i, newFace), ordered, i + 1, newFace)


\* closing the loop one half-edge late: lastHE.next is the second new half-edge
CloseLoopSkipFirst(b, n, newFace) ==
  LET len == Len(b.halfEdges)
      secondHE == b.halfEdges[len - n + 2]
      lastHE == b.halfEdges[len]
      H1 == IF n > 1 THEN [ b.H EXCEPT ![lastHE].next = secondHE ] ELSE b.H
  IN [ b EXCEPT !.H = H1,
                !.F = [ b.F EXCEPT ![newFace].halfEdge = IF len > 0 THEN b.halfEdges[len] ELSE 0 ] ]

\* lines 563-571: close the loop through the last orderedVertexIndices.length
\* entries of brep.halfEdges and give the new face the last entry
CloseLoop(b, n, newFace) ==
  LET len == Len(b.halfEdges)
      firstHE == b.halfEdges[len - n + 1]
      lastHE == b.halfEdges[len]
      H1 == IF n > 0 THEN [ b.H EXCEPT ![lastHE].next = firstHE ] ELSE b.H
  IN [ b EXCEPT !.H = H1,
                !.F = [ b.F EXCEPT ![newFace].halfEdge = IF len > 0 THEN b.halfEdges[len] ELSE 0 ] ]


\* Array.prototype.filter(x => !drop.has(x))
RECURSIVE FilterOut(_, _)
FilterOut(s, drop) ==
  IF s = <<>> THEN <<>>
  ELSE (IF Head(s) \in drop THEN <<>> ELSE << Head(s) >>) \o FilterOut(Tail(s), drop)

\* positions.filter((_, index) => !indicesToDelete.has(index)), indices 0-based
RECURSIVE FilterPositions(_, _, _)
FilterPositions(ps, i, indicesToDelete) ==
  IF i > Len(ps) THEN <<>>
  ELSE (IF (i - 1) \in indicesToDelete THEN <<>> ELSE << ps[i] >>)
       \o FilterPositions(ps, i + 1, indicesToDelete)

\* setIndex with the first two entries given each other's index
ReindexSwapped(arena, arr) ==
  [ id \in DOMAIN arena |->
      IF id \in Range(arr)
      THEN [ arena[id] EXCEPT !.index = IF Len(arr) >= 2 /\ IndexOf(arr, id) = 1 THEN 1
                                        ELSE IF Len(arr) >= 2 /\ IndexOf(arr, id) = 2 THEN 0
                                        ELSE IndexOf(arr, id) - 1 ]
      ELSE arena[id] ]

\* arr.forEach((x, i) => x.setIndex(i)) on an arena
Reindex(arena, arr) ==
  [ id \in DOMAIN arena |->
      IF id \in Range(arr) THEN [ arena[id] EXCEPT !.index = IndexOf(arr, id) - 1 ]
      ELSE arena[id] ]

\* Mesh.getCells(): the vertex indices around every face; [st, val]
RECURSIVE getCells(_, _)
getCells(b, i) ==
  IF i > Len(b.faces) THEN Ok(<<>>)
  ELSE LET fv == getFaceVertices(b, b.faces[i])
           rest == getCells(b, i + 1)
       IN IF fv.st # "ok" THEN fv
          ELSE IF \E k \in DOMAIN fv.val : fv.val[k] \notin DOMAIN b.V THEN Throw
          ELSE IF rest.st # "ok" THEN rest
          ELSE Ok(<< [ k \in DOMAIN fv.val |-> b.V[fv.val[k]].index ] >> \o rest.val)

\* Mesh.buildEdgeMap(): every edge of brep.edges under the indices of the two
\* ends of its half-edge; an edge whose half-edge has no flip is left out
RECURSIVE buildEdgeMap(_, _, _)
buildEdgeMap(b, i, m) ==
  IF i > Len(b.edges) THEN m
  ELSE LET e == b.edges[i]
           he == b.E[e].halfEdge
           fl == IF IsHE(b, he) THEN b.H[he].flip ELSE 0
           ok == /\ IsHE(b, he) /\ IsHE(b, fl)
                 /\ b.H[he].vertex \in DOMAIN b.V /\ b.H[fl].vertex \in DOMAIN b.V
       IN buildEdgeMap(b, i + 1,
            IF ok THEN EdgeMapPut(m, b.V[b.H[he].vertex].index, b.V[b.H[fl].vertex].index, e)
            ELSE m)

\* lines 593-595: brep.cells = brep.getCells(); brep.buildEdgeMap(); [st, b]
RebuildCells(b2, cells) ==
  IF cells.st # "ok" THEN [ st |-> cells.st, b |-> b2 ]
  ELSE [ st |-> "ok",
         b |-> [ b2 EXCEPT !.cells = cells.val,
                           !.edgeMap = buildEdgeMap(b2, 1, EmptyEdgeMap) ] ]

\* lines 588-595: the three setIndex loops, then the rebuild
ReindexAll(b1) ==
  LET b2 == [ b1 EXCEPT !.V = Reindex(b1.V, b1.vertices),
                        !.E = Reindex(b1.E, b1.edges),
                        !.F = Reindex(b1.F, b1.faces) ]
  IN RebuildCells(b2, getCells(b2, 1))

\* the purge with vertex2 and its position row left in place
PurgeFirstOnly(b, vertex1, vertex2, edgesToDelete, halfEdgesToDelete, facesToDelete) ==
  ReindexAll([ b EXCEPT
                 !.edges = FilterOut(b.edges, edgesToDelete),
                 !.halfEdges = FilterOut(b.halfEdges, halfEdgesToDelete),
                 !.vertices = FilterOut(b.vertices, { vertex1 }),
                 !.positions = FilterPositions(b.positions, 1, { b.V[vertex1].index }),
                 !.faces = FilterOut(b.faces, facesToDelete) ])

\* lines 573-595: purge, reindex, rebuild cells and edge map; [st, b]
Purge(b, vertex1, vertex2, edgesToDelete, halfEdgesToDelete, facesToDelete) ==
  ReindexAll([ b EXCEPT
                 !.edges = FilterOut(b.edges, edgesToDelete),
                 !.halfEdges = FilterOut(b.halfEdges, halfEdgesToDelete),
                 !.vertices = FilterOut(b.vertices, { vertex1, vertex2 }),
                 !.positions = FilterPositions(b.positions, 1,
                                               { b.V[vertex1].index, b.V[vertex2].index }),
                 !.faces = FilterOut(b.faces, facesToDelete) ])

\* what a call of deleteVertexPairAndUpdateBREP found on its way
NoTrace ==
  [ topFace |-> 0, bottomFace |-> 0, facesToDelete |-> <<>>, disjoint |-> <<>>,
    ordered |-> <<>>, newFace |-> 0 ]

DelResult(st, b, tr) == [ st |-> st, b |-> b, tr |-> tr ]

\* newVertices.map(v => v.getIndex()) of the disjoint half-edges' origins
DisjointIndices(b, disjoint) == [ i \in DOMAIN disjoint |-> b.V[b.H[disjoint[i]].vertex].index ]

\* the result of a call that reached its last line
Purged(purged, tr1) == DelResult(purged.st, purged.b, tr1)

\* lines 563-595, after the forEach of line 525 has run (w is what it left)
CloseAndPurge(vertex1, vertex2, acc, tr1, w) ==
  IF w.st # "ok" THEN DelResult(w.st, w.b, tr1)
  ELSE Purged(Purge(CloseLoop(w.b, Len(tr1.ordered), tr1.newFace), vertex1, vertex2,
                    acc.edges, acc.hes, Range(tr1.facesToDelete)),
              tr1)

\* lines 513-595: the new face and its half-edges around orderedVertexIndices
CapOrdered(b, vertex1, vertex2, acc, tr1) ==
  CloseAndPurge(vertex1, vertex2, acc, tr1,
    CapLoop([ st |-> "ok",
              b |-> [ b EXCEPT !.F = Append(b.F, [ index |-> Len(b.faces), halfEdge |-> 0 ]),
                               !.faces = Append(b.faces, tr1.newFace) ],
              previousHE |-> 0 ],
            tr1.ordered, 1, tr1.newFace))

\* lines 508-595, from the collected sets on
CapAndPurge(b, vertex1, vertex2, acc, tr, wrap) ==
  LET origins == [ i \in DOMAIN acc.disjoint |-> b.H[acc.disjoint[i]].vertex ]
      indices == DisjointIndices(b, acc.disjoint)
      noRow == /\ Len(indices) >= 3
               /\ \E i \in DOMAIN indices : (indices[i] + 1) \notin DOMAIN b.positions
  IN IF \E i \in DOMAIN origins : origins[i] \notin DOMAIN b.V THEN DelResult("throw", b, tr)
     ELSE IF noRow THEN DelResult("throw", b, tr)
     ELSE CapOrdered(b, vertex1, vertex2, acc,
            [ tr EXCEPT !.ordered = orderVerticesByAngle(indices, b.positions, wrap),
                        !.newFace = Len(b.F) + 1 ])

\* lines 508-595: the collected half-edges are capped, unless collecting failed
CapCollected(bu, vertex1, vertex2, wrap, tr, acc) ==
  IF acc.st # "ok" THEN DelResult(acc.st, bu, [ tr EXCEPT !.disjoint = acc.disjoint ])
  ELSE CapAndPurge(bu, vertex1, vertex2, acc, [ tr EXCEPT !.disjoint = acc.disjoint ], wrap)

\* lines 454-506: disjointHalfEdges starts from the two half-edges the face
\* updates returned; the half-edges of both vertices are then sorted out
CollectAround(b, vertex1, vertex2, wrap, tr, he1, u2) ==
  IF u2.st # "ok" THEN DelResult(u2.st, u2.b, tr)
  ELSE
    LET allVertexEdges == SetAddAll(<<>>, VertexEdges(b, vertex1).val
                                            \o VertexEdges(b, vertex2).val)
        disjoint0 == (IF he1 # 0 THEN << he1 >> ELSE <<>>)
                     \o (IF u2.he # 0 THEN << u2.he >> ELSE <<>>)
        acc0 == [ st |-> "ok", hes |-> EdgeHalfEdges(u2.b, allVertexEdges),
                  edges |-> Range(allVertexEdges), disjoint |-> disjoint0 ]
    IN CapCollected(u2.b, vertex1, vertex2, wrap, tr,
         CollectHalfEdges(u2.b, VertexHalfEdges(b, vertex1).val
                                  \o VertexHalfEdges(b, vertex2).val,
                          1, vertex1, vertex2, tr.topFace, tr.bottomFace, acc0))

\* lines 465-469: the bottom face is relinked around vertex2
UpdateBottom(b, vertex1, vertex2, wrap, tr, u1) ==
  IF u1.st # "ok" THEN DelResult(u1.st, u1.b, tr)
  ELSE CollectAround(b, vertex1, vertex2, wrap, tr, u1.he,
         IF tr.bottomFace # 0 THEN updateFaceWithoutVertex(u1.b, tr.bottomFace, vertex2)
         ELSE [ st |-> "ok", b |-> u1.b, he |-> 0 ])

\* the faces of both vertices with only the bottom face taken out
FacesToDeleteWithTop(vertex1Faces, vertex2Faces, topFace, bottomFace) ==
  FilterOut(SetAddAll(vertex1Faces, vertex2Faces), { bottomFace })

\* lines 448-451: the faces of both vertices other than the top and bottom face
FacesToDelete(vertex1Faces, vertex2Faces, topFace, bottomFace) ==
  FilterOut(SetAddAll(vertex1Faces, vertex2Faces), { topFace, bottomFace })

\* lines 448-463: facesToDelete, and the top face is relinked around vertex1
UpdateTop(b, vertex1, vertex2, wrap, vertex1Faces, vertex2Faces, top, bottom) ==
  IF top.st # "ok" THEN DelResult(top.st, b, NoTrace)
  ELSE IF bottom.st # "ok" THEN DelResult(bottom.st, b, NoTrace)
  ELSE
    LET tr == [ NoTrace EXCEPT
                  !.topFace = top.val, !.bottomFace = bottom.val,
                  !.facesToDelete = FacesToDelete(vertex1Faces, vertex2Faces,
                                                  top.val, bottom.val) ]
    IN UpdateBottom(b, vertex1, vertex2, wrap, tr,
         IF top.val # 0 THEN updateFaceWithoutVertex(b, top.val, vertex1)
         ELSE [ st |-> "ok", b |-> b, he |-> 0 ])

\* lines 419-446: the faces of both vertices lying at the higher and the lower Y
TopAndBottomFaces(b, vertex1, vertex2, wrap, f1, f2) ==
  IF f1.st # "ok" THEN DelResult(f1.st, b, NoTrace)
  ELSE IF f2.st # "ok" THEN DelResult(f2.st, b, NoTrace)
  ELSE IF ~HasPos(b, vertex1) \/ ~HasPos(b, vertex2) THEN DelResult("throw", b, NoTrace)
  ELSE
    LET vertex1Faces == SetAddAll(<<>>, f1.val)
        vertex2Faces == SetAddAll(<<>>, f2.val)
        vertex1Y == PosY(b, vertex1)
        vertex2Y == PosY(b, vertex2)
        maxY == IF vertex1Y >= vertex2Y THEN vertex1Y ELSE vertex2Y
        minY == IF vertex1Y <= vertex2Y THEN vertex1Y ELSE vertex2Y
    IN UpdateTop(b, vertex1, vertex2, wrap, vertex1Faces, vertex2Faces,
                 FindFaceAtY(b, vertex1Faces, 1, maxY), FindFaceAtY(b, vertex2Faces, 1, minY))

\* deleteVertexPairAndUpdateBREP(brep, vertex1, vertex2): [st, b, tr]
deleteVertexPairAndUpdateBREP(b, vertex1, vertex2, wrap) ==
  TopAndBottomFaces(b, vertex1, vertex2, wrap, VertexFaces(b, vertex1), VertexFaces(b, vertex2))

\* Tessellator.tessellate(brep) reaches its end: every face of brep.faces is
\* walked by FaceVertices and every vertex met has a position row; st as above
RECURSIVE tessellateSt(_, _)
tessellateSt(b, i) ==
  IF i > Len(b.faces) THEN "ok"
  ELSE LET fv == getFaceVertices(b, b.faces[i])
       IN IF fv.st # "ok" THEN fv.st
          ELSE IF \E k \in DOMAIN fv.val : ~HasPos(b, fv.val[k]) THEN "throw"
          ELSE tessellateSt(b, i + 1)


\* ------------------------------------------------------------- position/cell variant
\* currentHE.vertex.index; -1 when the chain breaks on undefined
VIndexOf(b, he) ==
  IF IsHE(b, he) /\ b.H[he].vertex \in DOMAIN b.V THEN b.V[b.H[he].vertex].index ELSE -1

\* do { if (currentHE.vertex.index === idx) ...; currentHE = next } while (!== startHE):
\* [st, val], val the first half-edge of the loop from that vertex index, 0 if none
RECURSIVE LoopFind(_, _, _, _, _)
LoopFind(b, start, cur, idx, n) ==
  IF VIndexOf(b, cur) = -1 THEN [ st |-> "throw", val |-> 0 ]
  ELSE IF n > Len(b.H) THEN [ st |-> "hang", val |-> 0 ]
  ELSE IF VIndexOf(b, cur) = idx THEN [ st |-> "ok", val |-> cur ]
  ELSE IF b.H[cur].next = start THEN [ st |-> "ok", val |-> 0 ]
  ELSE LoopFind(b, start, b.H[cur].next, idx, n + 1)

\* prevHE = startHE; while (prevHE.nextHalfEdge !== currentHE) prevHE = next
RECURSIVE PrevInLoop(_, _, _, _)
PrevInLoop(b, p, cur, n) ==
  IF ~IsHE(b, p) THEN [ st |-> "throw", val |-> 0 ]
  ELSE IF n > Len(b.H) THEN [ st |-> "hang", val |-> 0 ]
  ELSE IF b.H[p].next = cur THEN [ st |-> "ok", val |-> p ]
  ELSE PrevInLoop(b, b.H[p].next, cur, n + 1)

\* connectedFaces made unique by face.index, first occurrence kept
RECURSIVE UniqueByIndex(_, _, _, _)
UniqueByIndex(b, faces, i, acc) ==
  IF i > Len(faces) THEN acc
  ELSE UniqueByIndex(b, faces, i + 1,
         IF \E k \in DOMAIN acc : b.F[acc[k]].index = b.F[faces[i]].index THEN acc
         ELSE Append(acc, faces[i]))

\* .filter(face => its loop holds the selected vertex index): [st, val]
RECURSIVE FacesHolding(_, _, _, _)
FacesHolding(b, faces, i, idx) ==
  IF i > Len(faces) THEN Ok(<<>>)
  ELSE LET found == LoopFind(b, b.F[faces[i]].halfEdge, b.F[faces[i]].halfEdge, idx, 0)
           rest == FacesHolding(b, faces, i + 1, idx)
       IN IF found.st # "ok" THEN [ st |-> found.st, val |-> <<>> ]
          ELSE IF rest.st # "ok" THEN rest
          ELSE Ok((IF found.val # 0 THEN << faces[i] >> ELSE <<>>) \o rest.val)

\* lines 182-205: the neighbours of the selected vertex, in insertion order, and
\* for each the half-edge recorded for it (the last one set); acc = [st, neighbors, hes]
RECURSIVE CollectNeighbors(_, _, _, _, _)
CollectNeighbors(b, faces, i, idx, acc) ==
  IF i > Len(faces) \/ acc.st # "ok" THEN acc
  ELSE
    LET startHE == b.F[faces[i]].halfEdge
        currentHE == LoopFind(b, startHE, startHE, idx, 0)
        prevHE == PrevInLoop(b, startHE, currentHE.val, 0)
        nextHE == b.H[currentHE.val].next
        pi == VIndexOf(b, prevHE.val)
        ni == VIndexOf(b, nextHE)
        n1 == SetAdd(SetAdd(acc.neighbors, pi), ni)
        h1 == [ k \in DOMAIN acc.hes \cup { pi, ni } |->
                  IF k = ni THEN nextHE ELSE IF k = pi THEN prevHE.val ELSE acc.hes[k] ]
    IN CollectNeighbors(b, faces, i + 1, idx,
         IF currentHE.st # "ok" THEN [ acc EXCEPT !.st = currentHE.st ]
         ELSE IF currentHE.val = 0 THEN acc
         ELSE IF prevHE.st # "ok" THEN [ acc EXCEPT !.st = prevHE.st ]
         ELSE IF pi = -1 \/ ni = -1 THEN [ acc EXCEPT !.st = "throw" ]
         ELSE [ acc EXCEPT !.neighbors = n1, !.hes = h1 ])

\* lines 207-215: the first neighbour with the least Y; -1 for null
RECURSIVE BottomNeighbor(_, _, _, _)
BottomNeighbor(b, neighbors, i, bottomIdx) ==
  IF i > Len(neighbors) THEN bottomIdx
  ELSE BottomNeighbor(b, neighbors, i + 1,
         IF bottomIdx = -1 \/ b.positions[neighbors[i] + 1][2] < b.positions[bottomIdx + 1][2]
         THEN neighbors[i] ELSE bottomIdx)

\* lines 230-266 for one face: w = [st, b, startHE, currentHE, firstPass, n]
RECURSIVE SpliceFace(_, _, _, _)
SpliceFace(w, face, selectedPos, bottomNeighborIndex) ==
  LET b == w.b
      cur == w.currentHE
      idx == VIndexOf(b, cur)
      isSelectedVertex == b.positions[idx + 1] = selectedPos
      isBottomVertex == bottomNeighborIndex # -1 /\ idx = bottomNeighborIndex
      prevHE == PrevInLoop(b, w.startHE, cur, 0)
      nextHE == b.H[cur].next
      isStart == b.F[face].halfEdge = cur
      spliced == [ b EXCEPT !.H = [ b.H EXCEPT ![prevHE.val].next = nextHE ],
                            !.F = IF isStart THEN [ b.F EXCEPT ![face].halfEdge = nextHE ]
                                  ELSE b.F ]
      remove == isSelectedVertex \/ isBottomVertex
      b1 == IF remove THEN spliced ELSE b
      start1 == IF remove /\ isStart THEN nextHE ELSE w.startHE
      cur1 == nextHE
  IN IF w.st # "ok" THEN w
     ELSE IF idx = -1 \/ (idx + 1) \notin DOMAIN b.positions THEN [ w EXCEPT !.st = "throw" ]
     ELSE IF w.n > 3 * Len(b.H) THEN [ w EXCEPT !.st = "hang" ]
     ELSE IF remove /\ prevHE.st # "ok" THEN [ w EXCEPT !.st = prevHE.st ]
     ELSE IF cur1 = start1 /\ ~w.firstPass
     THEN [ w EXCEPT !.b = b1, !.startHE = start1, !.currentHE = cur1 ]
     ELSE SpliceFace([ w EXCEPT !.b = b1, !.startHE = start1, !.currentHE = cur1,
                                !.firstPass = w.firstPass /\ cur1 # start1, !.n = w.n + 1 ],
                     face, selectedPos, bottomNeighborIndex)

\* allAffectedFaces.forEach of lines 225-267: [st, b]
RECURSIVE SpliceFaces(_, _, _, _, _, _)
SpliceFaces(st, b, faces, i, selectedPos, bottomNeighborIndex) ==
  IF i > Len(faces) \/ st # "ok" THEN [ st |-> st, b |-> b ]
  ELSE LET w == SpliceFace([ st |-> "ok", b |-> b, startHE |-> b.F[faces[i]].halfEdge,
                             currentHE |-> b.F[faces[i]].halfEdge, firstPass |-> TRUE,
                             n |-> 0 ],
                           faces[i], selectedPos, bottomNeighborIndex)
       IN SpliceFaces(w.st, w.b, faces, i + 1, selectedPos, bottomNeighborIndex)

\* lines 272-292 for one loop: the vertex indices whose X and Z equal those of some
\* neighbour, added to the gapBoundaryVertices set in walk order; acc = [st, val]
RECURSIVE GapWalk(_, _, _, _, _, _)
GapWalk(b, start, cur, neighbors, acc, n) ==
  LET idx == VIndexOf(b, cur)
      currentPos == b.positions[idx + 1]
      wasConnectedToRemoved ==
        \E k \in DOMAIN neighbors :
          /\ currentPos[1] = b.positions[neighbors[k] + 1][1]
          /\ currentPos[3] = b.positions[neighbors[k] + 1][3]
      acc1 == IF wasConnectedToRemoved THEN SetAdd(acc, idx) ELSE acc
  IN IF idx = -1 \/ (idx + 1) \notin DOMAIN b.positions THEN [ st |-> "throw", val |-> acc ]
     ELSE IF n > Len(b.H) THEN [ st |-> "hang", val |-> acc ]
     ELSE IF b.H[cur].next = start THEN [ st |-> "ok", val |-> acc1 ]
     ELSE GapWalk(b, start, b.H[cur].next, neighbors, acc1, n + 1)

RECURSIVE GapBoundary(_, _, _, _, _)
GapBoundary(b, faces, i, neighbors, acc) ==
  IF i > Len(faces) \/ acc.st # "ok" THEN acc
  ELSE GapBoundary(b, faces, i + 1, neighbors,
         GapWalk(b, b.F[faces[i]].halfEdge, b.F[faces[i]].halfEdge, neighbors, acc.val, 0))

\* lines 301-311: the first vertex with the least X / the greatest X
RECURSIVE Leftmost(_, _, _, _)
Leftmost(b, arr, i, best) ==
  IF i > Len(arr) THEN best
  ELSE Leftmost(b, arr, i + 1,
         IF b.positions[arr[i] + 1][1] < b.positions[best + 1][1] THEN arr[i] ELSE best)

RECURSIVE Rightmost(_, _, _, _)
Rightmost(b, arr, i, best) ==
  IF i > Len(arr) THEN best
  ELSE Rightmost(b, arr, i + 1,
         IF b.positions[arr[i] + 1][1] > b.positions[best + 1][1] THEN arr[i] ELSE best)

\* calculateAngle (336-363) in exact arithmetic. With D = rightmostPos - leftmostPos,
\* primaryDir = D / |D| and planeNormal = (-D.z, 0, D.x) / |D|; projVec is a positive
\* multiple of P = |D|^2 vec - (vec . N) N with N = (-D.z, 0, D.x). The angle is
\* NaN when |D| = 0 or P = 0, else sign * acos(cos) with sign = sgn((D x P) . N) and
\* cos = (P . D) / (|P| |D|); the record keeps sign and the pair (P . D, |P|^2).
calculateAngle(pos, leftmostPos, D) ==
  LET N == << -D[3], 0, D[1] >>
      vec == VSub(pos, leftmostPos)
      P == VDir(VSub(VScale(vec, VDot(D, D)), VScale(N, VDot(vec, N))))
  IN [ nan |-> D = VZero \/ P = VZero,
       sign |-> Sgn(VDot(VCross(D, P), N)),
       num |-> VDot(P, D),
       den |-> VDot(P, P) ]

\* sgn(a / sqrt(A) - c / sqrt(C)) for A, C > 0
CosCmp(a, A, c, C) ==
  LET g == Gcd(Abs(a), Abs(c))
      h == Gcd(A, C)
      a1 == IF g = 0 THEN 0 ELSE a \div g
      c1 == IF g = 0 THEN 0 ELSE c \div g
      A1 == A \div h
      C1 == C \div h
  IN IF Sgn(a) # Sgn(c) THEN Sgn(Sgn(a) - Sgn(c))
     ELSE IF a >= 0 THEN Sgn(a1 * a1 * C1 - c1 * c1 * A1)
     ELSE Sgn(c1 * c1 * A1 - a1 * a1 * C1)

\* the comparator of line 365-369: sgn(angleA - angleB), NaN counted as 0 by sort
AngleCompare(x, y) ==
  IF x.nan \/ y.nan THEN 0
  ELSE IF x.sign # y.sign THEN Sgn(x.sign - y.sign)
  ELSE IF x.sign = 0 THEN 0
  ELSE IF x.sign = 1 THEN CosCmp(y.num, y.den, x.num, x.den)
  ELSE CosCmp(x.num, x.den, y.num, y.den)

\* Array.prototype.sort for fewer than 64 elements: the leading run is found (and
\* reversed when strictly descending), the rest is placed by binary insertion.
\* ang maps a vertex index to its calculateAngle record.
RECURSIVE RunLength(_, _, _, _)
RunLength(arr, ang, idx, isDescending) ==
  IF idx > Len(arr) THEN Len(arr)
  ELSE LET order == AngleCompare(ang[arr[idx]], ang[arr[idx - 1]])
       IN IF (isDescending /\ order >= 0) \/ (~isDescending /\ order < 0) THEN idx - 1
          ELSE RunLength(arr, ang, idx + 1, isDescending)

Reverse(s) == [ i \in 1..Len(s) |-> s[Len(s) + 1 - i] ]

\* the leading run of length run, reversed in place when it is descending
MakeRun(arr, isDescending, run) ==
  [ run |-> run,
    arr |-> IF isDescending THEN Reverse(SubSeq(arr, 1, run)) \o SubSeq(arr, run + 1, Len(arr))
            ELSE arr ]

RunFrom(arr, ang, isDescending) ==
  MakeRun(arr, isDescending, RunLength(arr, ang, 3, isDescending))

CountAndMakeRun(arr, ang) == RunFrom(arr, ang, AngleCompare(ang[arr[2]], ang[arr[1]]) < 0)

RECURSIVE BinarySearch(_, _, _, _, _)
BinarySearch(arr, ang, pivot, left, right) ==
  IF left >= right THEN left
  ELSE LET mid == left + ((right - left) \div 2)
       IN IF AngleCompare(ang[pivot], ang[arr[mid]]) < 0
          THEN BinarySearch(arr, ang, pivot, left, mid)
          ELSE BinarySearch(arr, ang, pivot, mid + 1, right)

RECURSIVE BinaryInsertionSort(_, _, _)
BinaryInsertionSort(arr, ang, start) ==
  IF start > Len(arr) THEN arr
  ELSE LET left == BinarySearch(arr, ang, arr[start], 1, start)
       IN BinaryInsertionSort(
            SubSeq(arr, 1, left - 1) \o << arr[start] >> \o SubSeq(arr, left, start - 1)
              \o SubSeq(arr, start + 1, Len(arr)),
            ang, start + 1)

SortFromRun(r, ang) == BinaryInsertionSort(r.arr, ang, r.run + 1)

SortBoundary(arr, ang) ==
  IF Len(arr) < 2 THEN arr
  ELSE SortFromRun(CountAndMakeRun(arr, ang), ang)

\* lines 378-386: indexMap as a function old index -> new index, -1 for undefined
IndexMap(n, verticesToRemove) ==
  [ old \in 0..(n - 1) |->
      IF old \in verticesToRemove THEN -1
      ELSE Cardinality({ k \in 0..(old - 1) : k \notin verticesToRemove }) ]

\* lines 391-415: the surviving faces as cells, first of each vertex list kept
RECURSIVE NewCells(_, _, _, _, _)
NewCells(b, i, verticesToRemove, indexMap, acc) ==
  IF i > Len(b.faces) \/ acc.st # "ok" THEN acc
  ELSE
    LET loop == LoopFrom(b, b.F[b.faces[i]].halfEdge, b.F[b.faces[i]].halfEdge, <<>>)
        olds == [ k \in DOMAIN loop.val |-> VIndexOf(b, loop.val[k]) ]
        firstRemoved == { k \in DOMAIN olds : olds[k] \in verticesToRemove }
        validFace == firstRemoved = {}
        faceVertices == [ k \in DOMAIN olds |-> indexMap[olds[k]] ]
    IN NewCells(b, i + 1, verticesToRemove, indexMap,
         IF loop.st # "ok" /\ firstRemoved = {} THEN [ acc EXCEPT !.st = loop.st ]
         ELSE IF validFace /\ Len(faceVertices) >= 3
                 /\ ~\E k \in DOMAIN acc.val : acc.val[k] = faceVertices
         THEN [ acc EXCEPT !.val = Append(acc.val, faceVertices) ]
         ELSE acc)

\* ------------------------------------------------------------- earcut (ear clipping)
\* A polygon ring is a sequence of nodes [i, x, y] read cyclically, the node
\* under the cursor first; i is the node's index in the input path.
RotL(ring) == IF Len(ring) <= 1 THEN ring ELSE Append(Tail(ring), Head(ring))

RotR(ring) ==
  IF Len(ring) <= 1 THEN ring ELSE << ring[Len(ring)] >> \o SubSeq(ring, 1, Len(ring) - 1)

\* signed area of the triangle p, q, r: negative at a convex corner of the ring
area(p, q, r) == (q.y - p.y) * (r.x - q.x) - (q.x - p.x) * (r.y - q.y)

\* signedArea(data): the sum over the path, each point against the one before it
signedArea(pts) ==
  LET n == Len(pts)
      term(k) == LET j == IF k = 1 THEN n ELSE k - 1
                 IN (pts[j][1] - pts[k][1]) * (pts[k][2] + pts[j][2])
      sumTo[k \in 0..n] == IF k = 0 THEN 0 ELSE sumTo[k - 1] + term(k)
  IN sumTo[n]

\* linkedList(data, clockwise = true): the nodes in path order when the signed
\* area is positive and in reverse order otherwise; the cursor is on the node
\* linked last, or on the first one when the last repeats it and is dropped
linkedList(pts) ==
  LET n == Len(pts)
      forward == signedArea(pts) > 0
      nodes == [ k \in 1..n |->
                 LET j == IF forward THEN k ELSE n + 1 - k
                 IN [ i |-> j - 1, x |-> pts[j][1], y |-> pts[j][2] ] ]
  IN IF n = 0 THEN <<>>
     ELSE IF nodes[n].x = nodes[1].x /\ nodes[n].y = nodes[1].y
     THEN SubSeq(nodes, 1, n - 1)
     ELSE RotR(nodes)

pointInTriangle(a, b, c, p) ==
  /\ (c.x - p.x) * (a.y - p.y) >= (a.x - p.x) * (c.y - p.y)
  /\ (a.x - p.x) * (b.y - p.y) >= (b.x - p.x) * (a.y - p.y)
  /\ (b.x - p.x) * (c.y - p.y) >= (c.x - p.x) * (b.y - p.y)

\* isEar(ear): the corner under the cursor is convex and no other node that is
\* not itself a convex corner lies in its triangle
isEar(ring) ==
  LET n == Len(ring)
      a == ring[n]
      b == ring[1]
      c == ring[2]
  IN /\ area(a, b, c) < 0
     /\ \A k \in 3..(n - 1) :
          ~(pointInTriangle(a, b, c, ring[k]) /\ area(ring[k - 1], ring[k], ring[k + 1]) >= 0)

\* filterPoints(start): nodes equal to their successor or collinear with their
\* neighbours are dropped; returns the ring with the cursor on the end node
RECURSIVE filterPoints(_, _)
filterPoints(ring, end) ==
  IF Len(ring) <= 1 THEN ring
  ELSE IF \/ (ring[1].x = ring[2].x /\ ring[1].y = ring[2].y)
          \/ area(ring[Len(ring)], ring[1], ring[2]) = 0
  THEN filterPoints(RotR(Tail(ring)), RotR(Tail(ring))[1].i)
  ELSE IF ring[2].i = end THEN RotL(ring)
  ELSE filterPoints(RotL(ring), end)

\* earcutLinked(ear, triangles, pass): ears are cut off while there are any; when
\* a whole round finds none the ring is filtered and clipped once more (pass 1).
\* The later passes (curing local intersections, splitting) only act on rings
\* that cross themselves; they are taken to add nothing.
RECURSIVE earcutLinked(_, _, _, _)
RECURSIVE ClipFrom(_, _, _)
earcutLinked(ring, stop, pass, triangles) ==
  IF Len(ring) <= 2 THEN triangles
  ELSE IF isEar(ring)
  THEN ClipFrom(RotL(Tail(ring)), pass,
                triangles \o << ring[Len(ring)].i, ring[1].i, ring[2].i >>)
  ELSE IF ring[2].i # stop THEN earcutLinked(RotL(ring), stop, pass, triangles)
  ELSE IF pass = 0 THEN ClipFrom(filterPoints(RotL(ring), ring[2].i), 1, triangles)
  ELSE triangles

\* clipping (re)started with ear and stop on the node under the cursor
ClipFrom(ring, pass, triangles) ==
  IF Len(ring) <= 2 THEN triangles ELSE earcutLinked(ring, ring[1].i, pass, triangles)

\* earcut(data, [], 2) on a path of << x, y >> points: local vertex indices, three
\* per triangle
earcut(pts) == ClipFrom(linkedList(pts), 0, <<>>)

\* ------------------------------------------------------------- Tessellator.js
\* the fields of a Tessellator; flush() gives them these values
NewTessellator ==
  [ verData |-> <<>>, indices |-> <<>>, uvData |-> <<>>,
    faceFacetMapping |-> [ k \in {} |-> <<>> ], facetID |-> -1, nBabylonVertices |-> 0 ]

\* a flush that resets nothing
flushNothing(t) == t

\* flush()
flush(t) == NewTessellator

\* the XZ projection whatever the face
getFaceNormalAndProjectionXZ(positions) == << 1, 3 >>

\* getFaceNormalAndProjection: the two coordinates kept (1 = x, 2 = y, 3 = z)
getFaceNormalAndProjection(positions) ==
  IF Len(positions) < 3 THEN << 1, 3 >>
  ELSE LET normal == VCross(VSub(positions[2], positions[1]), VSub(positions[3], positions[1]))
           nx == Abs(normal[1])
           ny == Abs(normal[2])
           nz == Abs(normal[3])
       IN IF normal = VZero THEN << 1, 3 >>
          ELSE IF ny >= nx /\ ny >= nz THEN << 1, 3 >>
          ELSE IF nz >= nx THEN << 1, 2 >>
          ELSE << 2, 3 >>

\* the earcutPath of a face, as points
earcutPath(facePositions, projectionIndices) ==
  [ k \in DOMAIN facePositions |->
      << facePositions[k][projectionIndices[1]], facePositions[k][projectionIndices[2]] >> ]

\* the triangles pushed as they are, without the face's vertex offset
AddTrianglesNoOffset(t, triangles) == [ t EXCEPT !.indices = @ \o triangles ]

\* lines 146-162: nothing is added for an empty triangulation; an index beyond
\* the vertices appended so far is skipped
AddTriangles(t, triangles) ==
  [ t EXCEPT !.indices =
      @ \o FilterSeq([ k \in DOMAIN triangles |-> triangles[k] + t.nBabylonVertices ],
                     { p \in 0..(Len(t.verData) \div 3) : p * 3 < Len(t.verData) }) ]

\* _populateIndices(facePositions): every row is an array of three numbers, so
\* 'Invalid vertex data' is not thrown and the fan of the catch block is not run
populateIndices(t, facePositions) ==
  AddTriangles(t, earcut(earcutPath(facePositions, getFaceNormalAndProjection(facePositions))))

\* _populatePositions(facePositions)
RECURSIVE populatePositions(_, _)
populatePositions(verData, facePositions) ==
  IF facePositions = <<>> THEN verData
  ELSE populatePositions(verData \o Head(facePositions), Tail(facePositions))

MinOf(S) == CHOOSE x \in S : \A y \in S : x <= y

\* lines 63-75, from the face's vertices on; [st, t].  A vertex without a position
\* row stops _populatePositions (spreading undefined) after the rows before it.
TessellateVertices(t, b, faceVertices) ==
  IF faceVertices.st # "ok" THEN [ st |-> faceVertices.st, t |-> t ]
  ELSE IF \E k \in DOMAIN faceVertices.val : ~HasPos(b, faceVertices.val[k])
  THEN [ st |-> "throw",
         t |-> [ t EXCEPT !.verData =
                   populatePositions(@,
                     [ k \in 1..(MinOf({ j \in DOMAIN faceVertices.val :
                                            ~HasPos(b, faceVertices.val[j]) }) - 1) |->
                         b.positions[b.V[faceVertices.val[k]].index + 1] ]) ] ]
  ELSE
    LET facePositions == [ k \in DOMAIN faceVertices.val |->
                             b.positions[b.V[faceVertices.val[k]].index + 1] ]
        t1 == [ t EXCEPT !.verData = populatePositions(t.verData, facePositions) ]
        t2 == populateIndices(t1, facePositions)
    IN [ st |-> "ok", t |-> [ t2 EXCEPT !.nBabylonVertices = Len(t2.verData) \div 3 ] ]

\* _tessellateFace(brep, face): [st, t]
tessellateFace(t, b, face) ==
  TessellateVertices(
    [ t EXCEPT !.faceFacetMapping =
        [ k \in DOMAIN t.faceFacetMapping \cup { b.F[face].index } |->
            IF k = b.F[face].index THEN <<>> ELSE t.faceFacetMapping[k] ] ],
    b, getFaceVertices(b, face))

\* brep.getFaces().forEach(...): w = [st, t]
RECURSIVE TessellateFaces(_, _, _)
TessellateFaces(w, b, i) ==
  IF i > Len(b.faces) \/ w.st # "ok" THEN w
  ELSE TessellateFaces(tessellateFace(w.t, b, b.faces[i]), b, i + 1)

\* the tessellationData of a call that reached its end
TessellationData(w) ==
  [ st |-> w.st, t |-> w.t,
    geometry |-> IF w.st = "ok"
                 THEN [ positions |-> w.t.verData, uvs |-> w.t.uvData, indices |-> w.t.indices ]
                 ELSE [ positions |-> <<>>, uvs |-> <<>>, indices |-> <<>> ],
    faceFacetMapping |-> IF w.st = "ok" THEN w.t.faceFacetMapping ELSE [ k \in {} |-> <<>> ] ]

\* tessellate(brep, scene) on a BREP: [st, t, geometry, faceFacetMapping]
tessellate(t, b) == TessellationData(TessellateFaces([ st |-> "ok", t |-> flush(t) ], b, 1))

\* tessellate(null, scene): geometry and faceFacetMapping are null; nothing is flushed
tessellateNull(t) ==
  [ st |-> "null", t |-> t, geometry |-> [ positions |-> <<>>, uvs |-> <<>>, indices |-> <<>> ],
    faceFacetMapping |-> [ k \in {} |-> <<>> ] ]

\* ------------------------------------------------------------- create.js
\* addMesh: the box
BoxPositions ==
  << <<5, 0, 5>>, <<10, 0, 5>>, <<9, 0, 10>>, <<4, 0, 10>>,
     <<5, 5, 5>>, <<10, 5, 5>>, <<9, 5, 10>>, <<4, 5, 10>> >>

BoxCells ==
  << <<0, 3, 2, 1>>, <<4, 5, 6, 7>>, <<0, 1, 5, 4>>, <<1, 2, 6, 5>>, <<2, 3, 7, 6>>,
     <<3, 0, 4, 7>> >>

addMesh(keepFirst) == process(BoxPositions, BoxCells, keepFirst).brep

\* addExampleMeshes: the base polygons, as [x, z] pairs.  The regular hexagon of
\* radius 5 is taken on the integer grid (its corners on the circle of radius 5).
squareBase == << <<5, -5>>, <<10, -5>>, <<9, -10>>, <<4, -10>> >>

pentagonBase == << <<-3, 8>>, <<2, 5>>, <<1, 11>>, <<-3, 10>>, <<-7, 8>> >>

hexagonBase == << <<5, 0>>, <<3, 4>>, <<-3, 4>>, <<-5, 0>>, <<-3, -4>>, <<3, -4>> >>

\* addCustomMesh(scene, basePolygon, height)
addCustomMesh(basePolygon, height, keepFirst) ==
  LET numPoints == Len(basePolygon)
      positions ==
        [ i \in 1..(2 * numPoints) |->
            IF i <= numPoints THEN << basePolygon[i][1], 0, basePolygon[i][2] >>
            ELSE << basePolygon[i - numPoints][1], height, basePolygon[i - numPoints][2] >> ]
      bottomFace == [ i \in 1..numPoints |-> numPoints - i ]
      topFace == [ i \in 1..numPoints |-> numPoints + i - 1 ]
      side(i) == << i, (i + 1) % numPoints, ((i + 1) % numPoints) + numPoints, i + numPoints >>
      cells == << bottomFace, topFace >> \o [ i \in 1..numPoints |-> side(i - 1) ]
  IN process(positions, cells, keepFirst).brep

\* height = 5, the default of addCustomMesh
DefaultHeight == 5

\* the meshes the scene can start with
Shapes(keepFirst) ==
  << addMesh(keepFirst), addCustomMesh(squareBase, DefaultHeight, keepFirst),
     addCustomMesh(pentagonBase, DefaultHeight, keepFirst),
     addCustomMesh(hexagonBase, DefaultHeight, keepFirst) >>

\* ------------------------------------------------------------- state
VARIABLES
  variant,       \* which EditModeManager is built in: "halfedge" or "cells"
  keepFirst,     \* Mesh.process() keeps a vertex's first half-edge (else its last)
  brep,          \* brepData of the mesh in the scene
  sceneMesh,     \* identity of the (undisposed) Mesh object holding brep
  selectedMesh,  \* EditModeManager.selectedMesh: 0 (null) or a Mesh identity
  calls,         \* number of handleVertexSelection calls so far
  last,          \* the last operation: what it was called on and what it found
  tessellator,   \* the fields of the Tessellator instance under test
  tessellated,   \* the tessellate calls made on it: meshes given, last result
  applied,       \* the last call of a geometry function: its name, arguments, result
  isEditMode,    \* EditModeManager.isEditMode
  cameraManager, \* the CameraManager: is2DMode and the fields of its camera
  vertexMarkers, \* EditModeManager.vertexMarkers: the markers in creation order, each
                 \* with the mesh it was made for and the BREP vertex it maps to
  highlightLayer, \* the meshes in EditModeManager.highlightLayer
  hoverActions   \* the meshes that carry the pointer-over and pointer-out actions

vars == << variant, keepFirst, brep, sceneMesh, selectedMesh, calls, last, tessellator, tessellated,
          applied, isEditMode, cameraManager, vertexMarkers, highlightLayer, hoverActions >>

\* no tessellate call made yet on the instance under test
\* no geometry function called yet
NotApplied == [ fn |-> "none", positions |-> <<>>, vertexIndices |-> <<>>, wrap |-> FALSE,
                result |-> <<>> ]

NoTessellation == [ given |-> <<>>, data |-> tessellateNull(NewTessellator) ]

NoOp ==
  [ op |-> "none", outcome |-> "none", pre |-> BrepMesh, preSelected |-> 0,
    vertex1 |-> 0, vertex2 |-> 0, tr |-> NoTrace, newCells |-> <<>> ]

\* ------------------------------------------------------------- CameraManager.js
\* defaultRadius, and defaultAlpha = -PI/2 and defaultBeta = PI/4 in degrees
DefaultRadius == 50

DefaultAlpha == -90

DefaultBeta == 45

\* constructor and setupCamera: a perspective camera at the default view
NewCameraManager ==
  [ is2DMode |-> FALSE,
    camera |-> [ mode |-> "perspective", alpha |-> DefaultAlpha, beta |-> DefaultBeta,
                 radius |-> DefaultRadius ] ]

\* toggle2DMode(): to the orthographic top-down view (beta = 0, alpha = -PI/2)
\* or back to the perspective default view; the radius is kept
toggle2DMode(cm) ==
  IF ~cm.is2DMode
  THEN [ is2DMode |-> TRUE,
         camera |-> [ cm.camera EXCEPT !.mode = "orthographic", !.beta = 0,
                                       !.alpha = DefaultAlpha ] ]
  ELSE [ is2DMode |-> FALSE,
         camera |-> [ cm.camera EXCEPT !.mode = "perspective", !.beta = DefaultBeta,
                                       !.alpha = DefaultAlpha ] ]

\* resetCamera(): default radius, and the view of the current mode
resetCamera(cm) ==
  [ cm EXCEPT !.camera.radius = DefaultRadius,
              !.camera.beta = IF cm.is2DMode THEN 0 ELSE DefaultBeta,
              !.camera.alpha = DefaultAlpha ]

\* ------------------------------------------------------------- vertex markers
\* the largest Y of the position rows
MaxY(positions) ==
  CHOOSE y \in { positions[k][2] : k \in DOMAIN positions } :
    \A k \in DOMAIN positions : positions[k][2] <= y

createVertexMarkersAll(mesh, b) ==
  IF mesh = 0 \/ b.positions = << >> THEN << >>
  ELSE [ k \in DOMAIN b.vertices |-> [ mesh |-> mesh, vertex |-> b.vertices[k] ] ]

\* createVertexMarkers(): one marker for each vertex of the selected mesh's BREP
\* whose Y is within 0.001 of the largest Y (equal to it, on integer
\* coordinates), in the order of the vertex list; none without a selected mesh
createVertexMarkers(mesh, b) ==
  LET top == { v \in Range(b.vertices) :
                 b.positions[b.V[v].index + 1][2] = MaxY(b.positions) }
      marked == FilterSeq(b.vertices, top)
  IN IF mesh = 0 \/ b.positions = << >> THEN << >>
     ELSE [ k \in DOMAIN marked |-> [ mesh |-> mesh, vertex |-> marked[k] ] ]

\* the EditModeManager and the CameraManager as index.js constructs them
UiConstructed ==
  /\ isEditMode = FALSE
  /\ cameraManager = NewCameraManager
  /\ vertexMarkers = << >>
  /\ highlightLayer = {}
  /\ hoverActions = {}

Init ==
  /\ variant \in { "halfedge", "cells" }
  /\ keepFirst \in BOOLEAN
  /\ \E s \in 1..NumShapes : brep = Shapes(keepFirst)[s]
  /\ sceneMesh = 1
  /\ selectedMesh = 0
  /\ calls = 0
  /\ last = NoOp
  /\ tessellator = NewTessellator
  /\ tessellated = NoTessellation
  /\ applied = NotApplied
  /\ UiConstructed

\* selectMesh(mesh): pointer down on the mesh
selectMesh ==
  /\ selectedMesh' = sceneMesh
  /\ highlightLayer' = (highlightLayer \ { selectedMesh }) \cup { sceneMesh }
  /\ vertexMarkers' = createVertexMarkers(sceneMesh, brep)
  /\ last' = [ NoOp EXCEPT !.op = "selectMesh", !.preSelected = selectedMesh ]
  /\ UNCHANGED << variant, keepFirst, brep, sceneMesh, calls, tessellator, tessellated, applied,
                  isEditMode, cameraManager, hoverActions >>

\* clearSelection()
clearSelection ==
  /\ selectedMesh # 0
  /\ selectedMesh' = 0
  /\ highlightLayer' = highlightLayer \ { selectedMesh }
  /\ vertexMarkers' = << >>
  /\ last' = [ NoOp EXCEPT !.op = "clearSelection", !.preSelected = selectedMesh ]
  /\ UNCHANGED << variant, keepFirst, brep, sceneMesh, calls, tessellator, tessellated, applied,
                  isEditMode, cameraManager, hoverActions >>

\* what a handler leaves of this call when it stops at outcome with BREP b
Stopped(base, outcome, b) == [ rec |-> [ base EXCEPT !.outcome = outcome ], b |-> b ]

\* lines 366-378 replaceOldMesh (and lines 446-452 of src/src/editModeManager.js):
\* on success the old mesh is disposed and the new one selected.  A disposed
\* mesh leaves the highlight layer and takes its actions with it.  replaceOldMesh
\* ends in selectMesh(newMesh), which highlights the new mesh and makes its
\* markers; the position/cell variant makes the markers and does not highlight.
replaceOldMesh(out) ==
  /\ last' = out.rec
  /\ brep' = out.b
  /\ sceneMesh' = IF out.rec.outcome = "ok" THEN sceneMesh + 1 ELSE sceneMesh
  /\ selectedMesh' = IF out.rec.outcome = "ok" THEN sceneMesh + 1 ELSE selectedMesh
  /\ vertexMarkers' = IF out.rec.outcome = "ok" THEN createVertexMarkers(sceneMesh + 1, out.b)
                      ELSE vertexMarkers
  /\ highlightLayer' = IF out.rec.outcome # "ok" THEN highlightLayer
                       ELSE IF variant = "halfedge"
                       THEN (highlightLayer \ { sceneMesh }) \cup { sceneMesh + 1 }
                       ELSE highlightLayer \ { sceneMesh }
  /\ hoverActions' = IF out.rec.outcome = "ok" THEN hoverActions \ { sceneMesh }
                     ELSE hoverActions

\* lines 272 and 314-332: createUpdatedMesh tessellates the BREP the deletion left
createUpdatedMesh(base, del) ==
  Stopped([ base EXCEPT !.tr = del.tr ],
          IF del.st # "ok" THEN del.st ELSE tessellateSt(del.b, 1), del.b)

\* lines 261-276, from the result of findVertexBelow on
DeleteBelow(base, selectedVertex, wrap, vertexBelow) ==
  IF vertexBelow.st # "ok"
  THEN Stopped(base, IF vertexBelow.st = "hang" THEN "hang" ELSE "uncaught", brep)
  ELSE IF vertexBelow.val = 0 THEN Stopped(base, "noBelow", brep)
  ELSE createUpdatedMesh([ base EXCEPT !.vertex2 = vertexBelow.val ],
         deleteVertexPairAndUpdateBREP(brep, selectedVertex, vertexBelow.val, wrap))

\* handleVertexSelection(selectedVertex) of the half-edge variant, with what it
\* calls: findVertexBelow, deleteVertexPairAndUpdateBREP, createUpdatedMesh
\* (tessellate) and replaceOldMesh (dispose, selectMesh of the new mesh).
HalfEdgeOutcome(selectedVertex, wrap) ==
  LET base == [ NoOp EXCEPT !.op = "halfedge", !.pre = brep, !.preSelected = selectedMesh,
                            !.vertex1 = selectedVertex ]
  IN IF selectedMesh = 0 THEN Stopped(base, "noMesh", brep)
     ELSE DeleteBelow(base, selectedVertex, wrap, findVertexBelow(brep, selectedVertex))

handleVertexSelection(selectedVertex, wrap) ==
  /\ variant = "halfedge"
  /\ calls < MaxCalls
  /\ replaceOldMesh(HalfEdgeOutcome(selectedVertex, wrap))
  /\ calls' = calls + 1
  /\ UNCHANGED << variant, keepFirst, tessellator, tessellated, applied, isEditMode,
                  cameraManager >>

\* an exception outside the try block of src/src/editModeManager.js
Fail(base, st, old) == Stopped(base, IF st = "hang" THEN "hang" ELSE "uncaught", old)

\* lines 420-457: the try block; the new Mesh is built before process() runs
TryProcess(done, spliced, newBrep) ==
  IF newBrep.st # "ok" THEN Stopped(done, "throw", spliced)
  ELSE LET tess == tessellateSt(newBrep.brep, 1)
       IN IF tess # "ok" THEN Stopped(done, tess, spliced)
          ELSE Stopped(done, "ok", newBrep.brep)

\* lines 371-457: positions and cells of the new BREP
Rebuild(base, s, spliced, boundaryArray, verticesToRemove, indexMap, cells) ==
  IF cells.st # "ok" THEN Fail(base, cells.st, spliced)
  ELSE LET newCells == Append(cells.val,
                              [ k \in DOMAIN boundaryArray |-> indexMap[boundaryArray[k]] ])
       IN TryProcess([ base EXCEPT !.vertex2 = s.bottomVertex, !.newCells = newCells,
                                   !.tr = [ NoTrace EXCEPT
                                              !.facesToDelete = s.allAffectedFaces,
                                              !.ordered = boundaryArray ] ],
                     spliced,
                     process(FilterPositions(brep.positions, 1, verticesToRemove), newCells,
                             keepFirst))

\* lines 371-415: verticesToRemove, indexMap and the surviving faces
Remap(base, s, spliced, boundaryArray, verticesToRemove, indexMap) ==
  Rebuild(base, s, spliced, boundaryArray, verticesToRemove, indexMap,
          NewCells(spliced, 1, verticesToRemove, indexMap, Ok(<<>>)))

\* lines 294-369: the gap boundary is sorted by angle about its leftmost vertex
SortGap(base, s, spliced, gap) ==
  IF gap.st # "ok" THEN Fail(base, gap.st, spliced)
  ELSE IF gap.val = <<>> THEN Fail(base, "throw", spliced)
  ELSE
    LET b == brep
        leftmost == Leftmost(b, gap.val, 1, gap.val[1])
        rightmost == Rightmost(b, gap.val, 1, gap.val[1])
        leftmostPos == b.positions[leftmost + 1]
        D == VSub(b.positions[rightmost + 1], leftmostPos)
        ang == [ i \in Range(gap.val) |-> calculateAngle(b.positions[i + 1], leftmostPos, D) ]
        verticesToRemove == { s.selectedVertexIndex } \cup
                            (IF s.bottomNeighborIndex = -1 THEN {}
                             ELSE { s.bottomNeighborIndex })
    IN Remap(base, s, spliced, SortBoundary(gap.val, ang), verticesToRemove,
             IndexMap(Len(b.positions), verticesToRemove))

\* lines 269-292, from the spliced faces on
WalkGap(base, s, neighbors, sp) ==
  IF sp.st # "ok" THEN Fail(base, sp.st, sp.b)
  ELSE SortGap(base, s, sp.b, GapBoundary(sp.b, s.allAffectedFaces, 1, neighbors, Ok(<<>>)))

\* lines 217-267: every face of either vertex is spliced in place
Splice(base, s, uniqueFaces, neighbors, bottomFaces) ==
  IF ~(bottomFaces.st = "ok" /\ \A k \in DOMAIN bottomFaces.val :
                                    bottomFaces.val[k] \in DOMAIN brep.F)
  THEN Fail(base, IF bottomFaces.st = "ok" THEN "throw" ELSE bottomFaces.st, brep)
  ELSE
    LET allAffectedFaces == SetAddAll(uniqueFaces, UniqueByIndex(brep, bottomFaces.val, 1, <<>>))
    IN WalkGap(base, [ s EXCEPT !.allAffectedFaces = allAffectedFaces ], neighbors,
               SpliceFaces("ok", brep, allAffectedFaces, 1,
                           brep.positions[s.selectedVertexIndex + 1], s.bottomNeighborIndex))

\* lines 207-223: the neighbour of least Y and the faces around it
\* s = [selectedVertexIndex, bottomNeighborIndex, bottomVertex, allAffectedFaces]
Bottom(base, selectedVertexIndex, uniqueFaces, nb, bottomNeighborIndex) ==
  LET bottomVertex == IF bottomNeighborIndex = -1 THEN 0
                      ELSE brep.H[nb.hes[bottomNeighborIndex]].vertex
  IN Splice(base,
            [ selectedVertexIndex |-> selectedVertexIndex,
              bottomNeighborIndex |-> bottomNeighborIndex,
              bottomVertex |-> bottomVertex, allAffectedFaces |-> <<>> ],
            uniqueFaces, nb.neighbors,
            IF bottomNeighborIndex = -1 THEN Ok(<<>>) ELSE VertexFaces(brep, bottomVertex))

\* lines 182-215, from the collected neighbours on
Neighbors(base, selectedVertexIndex, uniqueFaces, nb) ==
  IF nb.st # "ok" THEN Fail(base, nb.st, brep)
  ELSE Bottom(base, selectedVertexIndex, uniqueFaces, nb,
              BottomNeighbor(brep, nb.neighbors, 1, -1))

\* lines 164-205, from the unique faces holding the vertex on
Unique(base, selectedVertexIndex, uniqueFaces) ==
  IF uniqueFaces.st # "ok" THEN Fail(base, uniqueFaces.st, brep)
  ELSE Neighbors(base, selectedVertexIndex, uniqueFaces.val,
                 CollectNeighbors(brep, uniqueFaces.val, 1, selectedVertexIndex,
                                  [ st |-> "ok", neighbors |-> <<>>, hes |-> <<>> ]))

\* lines 160-180, from the faces VertexFaces returned on
Connected(base, selectedVertex, connectedFaces) ==
  IF ~(connectedFaces.st = "ok" /\ \A k \in DOMAIN connectedFaces.val :
                                      connectedFaces.val[k] \in DOMAIN brep.F)
  THEN Fail(base, IF connectedFaces.st = "ok" THEN "throw" ELSE connectedFaces.st, brep)
  ELSE Unique(base, brep.V[selectedVertex].index,
              FacesHolding(brep, UniqueByIndex(brep, connectedFaces.val, 1, <<>>), 1,
                           brep.V[selectedVertex].index))

\* src/src/editModeManager.js handleVertexSelection: the outcome record, the old
\* BREP as the handler leaves it, and the BREP of the mesh selected afterwards.
\* "uncaught" is an exception outside the try block, "throw" one caught by it.
CellsOutcome(selectedVertex) ==
  LET base == [ NoOp EXCEPT !.op = "cells", !.pre = brep, !.preSelected = selectedMesh,
                            !.vertex1 = selectedVertex ]
  IN IF selectedMesh = 0 THEN Stopped(base, "noMesh", brep)
     ELSE Connected(base, selectedVertex, VertexFaces(brep, selectedVertex))

handleVertexSelectionCells(selectedVertex) ==
  /\ variant = "cells"
  /\ calls < MaxCellCalls
  /\ replaceOldMesh(CellsOutcome(selectedVertex))
  /\ calls' = calls + 1
  /\ UNCHANGED << variant, keepFirst, tessellator, tessellated, applied, isEditMode,
                  cameraManager >>

Next ==
  \/ selectMesh
  \/ clearSelection
  \/ \E v \in Range(brep.vertices), wrap \in BOOLEAN : handleVertexSelection(v, wrap)
  \/ \E v \in Range(brep.vertices) : handleVertexSelectionCells(v)

Spec == Init /\ [][Next]_vars

\* ------------------------------------------------------------- the page
\* The scene of index.js with one BREP mesh beside the ground, driven by the
\* three buttons of setupControls and by the pointer: moving over and out of
\* the mesh, pressing on the ground, the mesh or a vertex marker, and moving
\* the camera.  A button can be pressed from the keyboard, so no order is
\* imposed between the pointer's moves and the clicks.

\* toggleEditMode(), with setupMeshInteraction (the mesh of the scene gets the
\* two hover actions; markers exist in edit mode only), clearSelection and
\* removeAllVertexMarkers
toggleEditMode ==
  /\ isEditMode' = ~isEditMode
  /\ IF ~isEditMode
     THEN /\ cameraManager' = IF ~cameraManager.is2DMode THEN toggle2DMode(cameraManager)
                              ELSE cameraManager
          /\ hoverActions' = hoverActions \cup { sceneMesh }
          /\ UNCHANGED << selectedMesh, vertexMarkers, highlightLayer >>
     ELSE /\ selectedMesh' = 0
          /\ highlightLayer' = highlightLayer \ { selectedMesh }
          /\ cameraManager' = IF cameraManager.is2DMode THEN toggle2DMode(cameraManager)
                              ELSE cameraManager
          /\ vertexMarkers' = << >>
          /\ UNCHANGED hoverActions
  /\ UNCHANGED << variant, keepFirst, brep, sceneMesh, calls, last, tessellator, tessellated,
                  applied >>

\* the click listener of the 'Toggle Edit Mode' button
clickEditMode == toggleEditMode

onToggleClickAlways(editing, cm) == toggle2DMode(cm)

\* the click listener of the '2D/3D Toggle' button
onToggleClick(editing, cm) == IF ~editing THEN toggle2DMode(cm) ELSE cm

clickToggle2D3D ==
  /\ cameraManager' = onToggleClick(isEditMode, cameraManager)
  /\ UNCHANGED << variant, keepFirst, brep, sceneMesh, selectedMesh, calls, last, tessellator,
                  tessellated, applied, isEditMode, vertexMarkers, highlightLayer, hoverActions >>

\* the click listener of the 'Reset View' button
clickResetView ==
  /\ cameraManager' = resetCamera(cameraManager)
  /\ UNCHANGED << variant, keepFirst, brep, sceneMesh, selectedMesh, calls, last, tessellator,
                  tessellated, applied, isEditMode, vertexMarkers, highlightLayer, hoverActions >>

\* the user turns and zooms the attached camera; in 2D mode the rotation is
\* locked and forced back to the top-down view before every frame
moveCamera ==
  /\ \E radius \in { DefaultRadius - k : k \in 0..MaxCameraMove },
        alpha \in { DefaultAlpha + k : k \in 0..MaxCameraMove },
        beta \in { DefaultBeta + k : k \in 0..MaxCameraMove } :
       cameraManager' =
         [ cameraManager EXCEPT
             !.camera.radius = radius,
             !.camera.alpha = IF cameraManager.is2DMode THEN DefaultAlpha ELSE alpha,
             !.camera.beta = IF cameraManager.is2DMode THEN 0 ELSE beta ]
  /\ UNCHANGED << variant, keepFirst, brep, sceneMesh, selectedMesh, calls, last, tessellator,
                  tessellated, applied, isEditMode, vertexMarkers, highlightLayer, hoverActions >>

\* the OnPointerOverTrigger action of the mesh
pointerOver ==
  /\ highlightLayer' = IF sceneMesh \in hoverActions /\ isEditMode /\ selectedMesh = 0
                       THEN highlightLayer \cup { sceneMesh } ELSE highlightLayer
  /\ UNCHANGED << variant, keepFirst, brep, sceneMesh, selectedMesh, calls, last, tessellator,
                  tessellated, applied, isEditMode, cameraManager, vertexMarkers, hoverActions >>

\* the OnPointerOutTrigger action of the mesh
pointerOut ==
  /\ highlightLayer' = IF sceneMesh \in hoverActions /\ isEditMode /\ selectedMesh = 0
                       THEN highlightLayer \ { sceneMesh } ELSE highlightLayer
  /\ UNCHANGED << variant, keepFirst, brep, sceneMesh, selectedMesh, calls, last, tessellator,
                  tessellated, applied, isEditMode, cameraManager, vertexMarkers, hoverActions >>

\* what a pointer-down event can pick
Picks ==
  { "none", "ground", "mesh" } \cup (IF vertexMarkers = << >> THEN {} ELSE { "vertexMarker" })

setupPointerObserverAlways(editing, picked) ==
  IF picked \in { "none", "ground" } THEN "return"
  ELSE IF picked = "vertexMarker" THEN "handleVertexSelection"
  ELSE "selectMesh"

\* the observer of setupPointerObserver on a POINTERDOWN event: what it calls
setupPointerObserver(editing, picked) ==
  IF ~editing THEN "return"
  ELSE IF picked \in { "none", "ground" } THEN "return"
  ELSE IF picked = "vertexMarker" THEN "handleVertexSelection"
  ELSE "selectMesh"

\* a pointer-down event the observer returns from
pointerDownReturn ==
  /\ \E picked \in Picks : setupPointerObserver(isEditMode, picked) = "return"
  /\ last' = [ NoOp EXCEPT !.op = "pointerDown", !.preSelected = selectedMesh,
                           !.outcome = IF isEditMode THEN "nothingPicked" ELSE "editModeOff" ]
  /\ UNCHANGED << variant, keepFirst, brep, sceneMesh, selectedMesh, calls, tessellator,
                  tessellated, applied, isEditMode, cameraManager, vertexMarkers, highlightLayer,
                  hoverActions >>

\* a pointer-down event on the mesh
pointerDownMesh ==
  /\ setupPointerObserver(isEditMode, "mesh") = "selectMesh"
  /\ selectMesh

\* a pointer-down event on a vertex marker
pointerDownMarker ==
  /\ "vertexMarker" \in Picks
  /\ setupPointerObserver(isEditMode, "vertexMarker") = "handleVertexSelection"
  /\ \E k \in DOMAIN vertexMarkers :
       \/ \E wrap \in BOOLEAN : handleVertexSelection(vertexMarkers[k].vertex, wrap)
       \/ handleVertexSelectionCells(vertexMarkers[k].vertex)

UiNext ==
  \/ clickEditMode
  \/ clickToggle2D3D
  \/ clickResetView
  \/ moveCamera
  \/ pointerOver
  \/ pointerOut
  \/ pointerDownReturn
  \/ pointerDownMesh
  \/ pointerDownMarker

UiSpec == Init /\ [][UiNext]_vars

\* ------------------------------------------------------------- a Tessellator alone
\* A Tessellator instance given meshes one call after the other.  Beside the
\* example shapes of create.js it is given one flat quad, a mesh whose first face
\* has its three vertices on a line, and a concave hexagon.
UnitQuad ==
  process(<< <<0, 0, 0>>, <<1, 0, 0>>, <<1, 0, 1>>, <<0, 0, 1>> >>, << <<0, 1, 2, 3>> >>,
          TRUE).brep

Sliver ==
  process(<< <<0, 0, 0>>, <<1, 0, 0>>, <<2, 0, 0>>, <<1, 0, 1>> >>,
          << <<0, 1, 2>>, <<0, 2, 3>> >>, TRUE).brep

LShape ==
  process(<< <<0, 0, 0>>, <<2, 0, 0>>, <<2, 0, 1>>, <<1, 0, 1>>, <<1, 0, 2>>, <<0, 0, 2>> >>,
          << <<0, 1, 2, 3, 4, 5>> >>, TRUE).brep

TessMeshes == SubSeq(Shapes(TRUE), 1, NumShapes) \o << UnitQuad, Sliver, LShape >>

TessInit ==
  /\ variant = "halfedge"
  /\ keepFirst = TRUE
  /\ brep = Shapes(TRUE)[1]
  /\ sceneMesh = 1
  /\ selectedMesh = 0
  /\ calls = 0
  /\ last = NoOp
  /\ tessellator = NewTessellator
  /\ tessellated = NoTessellation
  /\ applied = NotApplied
  /\ UiConstructed

\* what a call leaves: the instance's fields and the returned tessellationData
Returned(m, data) ==
  /\ tessellator' = data.t
  /\ tessellated' = [ given |-> Append(tessellated.given, m), data |-> data ]
  /\ UNCHANGED << variant, keepFirst, brep, sceneMesh, selectedMesh, calls, last, applied,
                  isEditMode, cameraManager, vertexMarkers, highlightLayer, hoverActions >>

\* tessellate(brep, scene) with the m-th mesh
tessellateMesh(m) ==
  /\ Len(tessellated.given) < MaxTessCalls
  /\ Returned(m, tessellate(tessellator, TessMeshes[m]))

\* tessellate(null, scene); recorded as mesh 0
tessellateNoBrep ==
  /\ Len(tessellated.given) < MaxTessCalls
  /\ Returned(0, tessellateNull(tessellator))

TessNext ==
  \/ \E m \in DOMAIN TessMeshes : tessellateMesh(m)
  \/ tessellateNoBrep

TessSpec == TessInit /\ [][TessNext]_vars

\* ------------------------------------------------------------- the geometry functions called on their own
Points == { << x, y, z >> : x \in 0..GridMax, y \in 0..GridMax, z \in 0..GridMax }

PointSeqs == UNION { [ 1..n -> Points ] : n \in 0..MaxPoints }

\* index lists over the rows of a position table of three rows
IndexSeqs == UNION { [ 1..n -> 0..2 ] : n \in 0..MaxPoints }

FnInit ==
  /\ variant = "halfedge"
  /\ keepFirst = TRUE
  /\ brep = Shapes(TRUE)[1]
  /\ sceneMesh = 1
  /\ selectedMesh = 0
  /\ calls = 0
  /\ last = NoOp
  /\ tessellator = NewTessellator
  /\ tessellated = NoTessellation
  /\ applied = NotApplied
  /\ UiConstructed

\* one call in a run: the functions keep no state between calls
Applied(call) ==
  /\ applied' = call
  /\ UNCHANGED << variant, keepFirst, brep, sceneMesh, selectedMesh, calls, last,
                  tessellator, tessellated, isEditMode, cameraManager, vertexMarkers, highlightLayer, hoverActions >>

\* getFaceNormalAndProjection(facePositions) of _populateIndices
applyProjection ==
  /\ applied = NotApplied
  /\ \E positions \in PointSeqs :
       Applied([ NotApplied EXCEPT !.fn = "getFaceNormalAndProjection",
                                   !.positions = positions,
                                   !.result = getFaceNormalAndProjection(positions) ])

\* calculatePlaneNormal(positions)
applyPlaneNormal ==
  /\ applied = NotApplied
  /\ \E positions \in PointSeqs :
       Applied([ NotApplied EXCEPT !.fn = "calculatePlaneNormal", !.positions = positions,
                                   !.result = calculatePlaneNormal(positions) ])

\* orderVerticesByAngle(vertexIndices, positions)
applyOrder ==
  /\ applied = NotApplied
  /\ \E positions \in [ 1..3 -> Points ], vertexIndices \in IndexSeqs, wrap \in BOOLEAN :
       Applied([ NotApplied EXCEPT
                   !.fn = "orderVerticesByAngle", !.positions = positions,
                   !.vertexIndices = vertexIndices, !.wrap = wrap,
                   !.result = orderVerticesByAngle(vertexIndices, positions, wrap) ])

FnNext ==
  \/ applyProjection
  \/ applyPlaneNormal
  \/ applyOrder

FnSpec == FnInit /\ [][FnNext]_vars

\* ------------------------------------------------------------- properties
\* what the properties below read off the state
Requested == last.op \in { "halfedge", "cells" } /\ last.outcome # "noMesh"

Succeeded == last.op \in { "halfedge", "cells" } /\ last.outcome = "ok"

HalfEdgeSucceeded == last.op = "halfedge" /\ last.outcome = "ok"

Failed == last.op \in { "halfedge", "cells" } /\ last.outcome \in { "throw", "uncaught" }

SameBrep(a, c) ==
  /\ a.positions = c.positions
  /\ a.vertices = c.vertices /\ a.edges = c.edges
  /\ a.halfEdges = c.halfEdges /\ a.faces = c.faces
  /\ \A h \in Range(a.halfEdges) : a.H[h].next = c.H[h].next /\ a.H[h].flip = c.H[h].flip
  /\ \A f \in Range(a.faces) : a.F[f].halfEdge = c.F[f].halfEdge

SameCounts(a, c) ==
  /\ Len(a.vertices) = Len(c.vertices) /\ Len(a.edges) = Len(c.edges)
  /\ Len(a.faces) = Len(c.faces) /\ Len(a.halfEdges) = Len(c.halfEdges)
  /\ Len(a.positions) = Len(c.positions)

NoLowerNeighbour(b, v) ==
  LET n == VertexNeighbors(b, v)
  IN n.st = "ok" /\ \A k \in DOMAIN n.val : HasPos(b, n.val[k]) /\ PosY(b, n.val[k]) >= PosY(b, v)

FaceLoop(b, f) == LoopFrom(b, b.F[f].halfEdge, b.F[f].halfEdge, <<>>)

IncidentFaces(b, v) ==
  { f \in Range(b.faces) : LET r == getFaceVertices(b, f)
                           IN r.st = "ok" /\ v \in Range(r.val) }

AllAtY(b, f, y) ==
  LET r == getFaceVertices(b, f)
  IN r.st = "ok" /\ \A k \in DOMAIN r.val : PosY(b, r.val[k]) = y

Max(a, c) == IF a > c THEN a ELSE c

Min(a, c) == IF a < c THEN a ELSE c

\* the top face (around v1, all at the greater Y) and the bottom face (around v2,
\* all at the lesser Y)
TopAndBottom(b, v1, v2) ==
  { f \in IncidentFaces(b, v1) : AllAtY(b, f, Max(PosY(b, v1), PosY(b, v2))) } \cup
  { f \in IncidentFaces(b, v2) : AllAtY(b, f, Min(PosY(b, v1), PosY(b, v2))) }

\* D of the face count: faces around v1 or v2 other than the top and bottom face
DeletedFaceCount ==
  Cardinality((IncidentFaces(last.pre, last.vertex1) \cup IncidentFaces(last.pre, last.vertex2))
              \ TopAndBottom(last.pre, last.vertex1, last.vertex2))

\* C1: a handleVertexSelection that fails after it has started leaves selectedMesh
\* the same mesh and its BREP unchanged (positions, entity sequences, next and flip
\* links, face.halfEdge), in both variants.
C1_FailureLeavesMeshUnchanged ==
  Failed => selectedMesh = last.preSelected /\ SameBrep(last.pre, brep)

\* C2: a deletion requested for a vertex none of whose neighbours is strictly lower
\* aborts: the vertex, edge, face, half-edge and position counts stay the same and
\* selectedMesh is not replaced.
C2_NoLowerNeighbourAborts ==
  Requested /\ NoLowerNeighbour(last.pre, last.vertex1)
    => SameCounts(last.pre, brep) /\ selectedMesh = last.preSelected

\* C3: a successful deletion of v1 and its companion v2 leaves N-2 vertices, N-2
\* position rows and F - D + 1 faces, D the faces around v1 or v2 other than the
\* preserved top and bottom faces.
C3_CountsAfterDeletion ==
  Succeeded =>
    /\ Len(brep.vertices) = Len(last.pre.vertices) - 2
    /\ Len(brep.positions) = Len(last.pre.positions) - 2
    /\ Len(brep.faces) = Len(last.pre.faces) - DeletedFaceCount + 1

\* C4: after a successful deletion every face loop closes after at least 3 steps,
\* every half-edge on it has that face, and none starts at a removed vertex.
C4_FaceLoopsClosed ==
  Succeeded =>
    \A i \in DOMAIN brep.faces :
      LET f == brep.faces[i]
          r == FaceLoop(brep, f)
      IN /\ r.st = "ok"
         /\ Len(r.val) >= 3
         /\ \A k \in DOMAIN r.val :
              /\ brep.H[r.val[k]].face = f
              /\ last.op = "halfedge" =>
                   brep.H[r.val[k]].vertex \notin { last.vertex1, last.vertex2 }

IsCube == last.pre.positions = BoxPositions /\ last.pre.cells = BoxCells

\* a successful deletion requested for a top vertex of the cube of addMesh
CubeTopDeleted == Succeeded /\ IsCube /\ PosY(last.pre, last.vertex1) = BoxPositions[5][2]

\* the capping face: the new Face of the half-edge variant, the face of the
\* boundary cell (the last cell) of the position/cell variant
CapFace == IF last.op = "halfedge" THEN last.tr.newFace ELSE brep.faces[Len(brep.faces)]

CapVertexCount == Len(getFaceVertices(brep, CapFace).val)

CubeCorner(n) ==
  CubeTopDeleted =>
    /\ Len(brep.vertices) = 6
    /\ Len(brep.faces) = 5
    /\ CapVertexCount = n
    /\ last.op = "halfedge" => CapVertexCount = Len(last.tr.disjoint)

\* C5 as stated: deleting one top vertex of the cube gives 6 vertices and 5 faces,
\* and the capping face has as many vertices as disjoint boundary half-edges were
\* collected, exactly 5.
C5_CubeCornerFive == CubeCorner(5)

\* C5 amended: deleting one top vertex of the cube gives 6 vertices and 5 faces,
\* and the capping face has as many vertices as disjoint boundary half-edges were
\* collected, exactly 4.
C5_CubeCornerFour == CubeCorner(4)

C5_Witness ==
  CubeTopDeleted /\ last.op = "halfedge" /\ Len(last.tr.disjoint) = 4 /\ CapVertexCount = 4

NewFaces == { f \in Range(brep.faces) : f \notin Range(last.pre.faces) }

NewFaceVertices == getFaceVertices(brep, last.tr.newFace)

\* the vertices named by the indices orderVerticesByAngle returned
OrderedVertices == [ k \in DOMAIN last.tr.ordered |-> last.pre.vertices[last.tr.ordered[k] + 1] ]

DisjointOrigins == { brep.H[h].vertex : h \in Range(last.tr.disjoint) }

IsRotation(a, c) ==
  /\ Len(a) = Len(c)
  /\ Len(a) = 0 \/ \E r \in 0..(Len(a) - 1) :
                     \A k \in DOMAIN a : a[k] = c[((k - 1 + r) % Len(a)) + 1]

\* C6: a successful deletion adds exactly one new face, whose loop visits exactly
\* the origins of the collected disjoint half-edges, each once, in the cyclic order
\* orderVerticesByAngle returned.
C6_NewFaceLoop ==
  HalfEdgeSucceeded =>
    /\ NewFaces = { last.tr.newFace }
    /\ NewFaceVertices.st = "ok"
    /\ IsRotation(NewFaceVertices.val, OrderedVertices)
    /\ Range(NewFaceVertices.val) = DisjointOrigins
    /\ Cardinality(Range(NewFaceVertices.val)) = Len(NewFaceVertices.val)
    /\ Cardinality(DisjointOrigins) = Len(last.tr.disjoint)

C6_Witness ==
  /\ HalfEdgeSucceeded
  /\ Len(last.tr.disjoint) = 4
  /\ Len(last.tr.ordered) = 4
  /\ last.tr.topFace # 0 /\ last.tr.bottomFace # 0

InHalfEdgeList(h) == h \in Range(brep.halfEdges)

\* C7: after any sequence of successful deletions every half-edge h of the list has
\* its flip in the list, flip(flip(h)) = h, origin(flip(h)) = origin(next(h)) and
\* origin(next(h)) # origin(h).
C7_FlipInvariants ==
  HalfEdgeSucceeded =>
    \A h \in Range(brep.halfEdges) :
      LET flip == brep.H[h].flip
          next == brep.H[h].next
      IN /\ InHalfEdgeList(flip)
         /\ brep.H[flip].flip = h
         /\ IsHE(brep, next)
         /\ brep.H[flip].vertex = brep.H[next].vertex
         /\ brep.H[next].vertex # brep.H[h].vertex

EdgeReferences(e) == { h \in Range(brep.halfEdges) : brep.H[h].edge = e }

\* C8: after a successful deletion every edge of the edge list is referenced by
\* exactly two half-edges of the list, which are each other's flip, run in opposite
\* directions between the same two vertices, and edge.halfEdge is one of them.
C8_EdgeTwoHalfEdges ==
  HalfEdgeSucceeded =>
    \A e \in Range(brep.edges) :
      /\ Cardinality(EdgeReferences(e)) = 2
      /\ brep.E[e].halfEdge \in EdgeReferences(e)
      /\ \A h \in EdgeReferences(e) :
           LET flip == brep.H[h].flip
           IN /\ flip \in EdgeReferences(e) \ { h }
              /\ brep.H[flip].flip = h
              /\ brep.H[flip].vertex = brep.H[brep.H[h].next].vertex
              /\ brep.H[h].vertex = brep.H[brep.H[flip].next].vertex

\* the directed pairs of cyclically consecutive vertices of a cell
DirectedPairs(cell) == { << cell[k], cell[(k % Len(cell)) + 1] >> : k \in DOMAIN cell }

Occurrences(cells, p) == Cardinality({ c \in DOMAIN cells : p \in DirectedPairs(cells[c]) })

OrientedManifold(cells) ==
  \A p \in UNION { DirectedPairs(cells[c]) : c \in DOMAIN cells } :
    Occurrences(cells, p) <= 1 /\ Occurrences(cells, << p[2], p[1] >>) = 1

\* C9: the cell list the position/cell variant hands to process() is a consistently
\* oriented 2-manifold whenever the input mesh was: every directed pair occurs in at
\* most one cell and its reverse in exactly one, the boundary cell included.
C9_CellsManifold ==
  last.op = "cells" /\ last.newCells # <<>> /\ OrientedManifold(last.pre.cells)
    => OrientedManifold(last.newCells)

\* C10: after any sequence of successful deletions the stored index of every
\* vertex, edge and face is its position in its sequence, and positions[v.index] is
\* the position v had before the deletion.
C10_DenseIndices ==
  HalfEdgeSucceeded =>
    /\ \A i \in DOMAIN brep.vertices : brep.V[brep.vertices[i]].index = i - 1
    /\ \A i \in DOMAIN brep.edges : brep.E[brep.edges[i]].index = i - 1
    /\ \A i \in DOMAIN brep.faces : brep.F[brep.faces[i]].index = i - 1
    /\ Len(brep.positions) = Len(brep.vertices)
    /\ \A i \in DOMAIN brep.vertices :
         LET v == brep.vertices[i]
         IN brep.positions[brep.V[v].index + 1] = last.pre.positions[last.pre.V[v].index + 1]

C10_Witness ==
  /\ HalfEdgeSucceeded
  /\ calls = 2
  /\ Len(brep.vertices) = Len(BoxPositions) - 4

\* a half-edge of the list refers only to listed objects (a null face is allowed)
HalfEdgeRefsListed(h) ==
  /\ brep.H[h].vertex \in Range(brep.vertices)
  /\ brep.H[h].edge \in Range(brep.edges)
  /\ brep.H[h].face = 0 \/ brep.H[h].face \in Range(brep.faces)
  /\ brep.H[h].next \in Range(brep.halfEdges)
  /\ brep.H[h].flip \in Range(brep.halfEdges)

\* C11: after a successful half-edge deletion every half-edge of the list has its
\* origin, edge, face (or null), next and flip in the lists, and the half-edge
\* stored on every listed vertex, edge and face is in the half-edge list (for a
\* vertex it starts at that vertex).
C11_NoDanglingReferences ==
  HalfEdgeSucceeded =>
    /\ \A h \in Range(brep.halfEdges) : HalfEdgeRefsListed(h)
    /\ \A v \in Range(brep.vertices) :
         /\ brep.V[v].halfEdge \in Range(brep.halfEdges)
         /\ brep.H[brep.V[v].halfEdge].vertex = v
    /\ \A e \in Range(brep.edges) : brep.E[e].halfEdge \in Range(brep.halfEdges)
    /\ \A f \in Range(brep.faces) : brep.F[f].halfEdge \in Range(brep.halfEdges)

\* the mesh given to the latest tessellate call (0: a null brep, or no call yet)
LastGiven == IF tessellated.given = <<>> THEN 0 ELSE tessellated.given[Len(tessellated.given)]

\* C12: whatever calls the instance served before, the position buffer, index
\* buffer and faceFacetMapping a tessellate(brep) call returns are those a fresh
\* instance returns for the same mesh.
C12_BuffersDependOnlyOnBrep ==
  LastGiven # 0 =>
    LET fresh == tessellate(NewTessellator, TessMeshes[LastGiven])
    IN /\ tessellated.data.st = fresh.st
       /\ tessellated.data.geometry = fresh.geometry
       /\ tessellated.data.faceFacetMapping = fresh.faceFacetMapping

C12_Witness ==
  /\ Len(tessellated.given) = 3
  /\ tessellated.given[1] # 0
  /\ tessellated.given[1] # tessellated.given[2]
  /\ tessellated.given[2] = tessellated.given[3]
  /\ tessellated.data.st = "ok"
  /\ tessellated.data.geometry.indices # <<>>

\* the mesh of the latest call, and whether that call returned buffers
LastMesh == TessMeshes[LastGiven]
LastReturned == LastGiven # 0 /\ tessellated.data.st = "ok"

\* how many vertices and indices the buffers hold
BlockEnd(t) == [ vertices |-> t.nBabylonVertices, indices |-> Len(t.indices) ]

\* the ends of the buffers of a fresh instance before the first face of b and
\* after each face: entry i is where face i starts, entry i + 1 where it ends
RECURSIVE FaceBlocksFrom(_, _, _, _)
FaceBlocksFrom(t, b, i, acc) ==
  IF i > Len(b.faces) THEN Append(acc, BlockEnd(t))
  ELSE FaceBlocksFrom(tessellateFace(t, b, b.faces[i]).t, b, i + 1, Append(acc, BlockEnd(t)))

FaceBlocks(b) == FaceBlocksFrom(NewTessellator, b, 1, <<>>)

\* the i-th face of b: its vertex count and its positions
FaceDegree(b, i) == Len(getFaceVertices(b, b.faces[i]).val)
FacePositions(b, i) ==
  LET faceVertices == getFaceVertices(b, b.faces[i]).val
  IN [ k \in DOMAIN faceVertices |-> b.positions[b.V[faceVertices[k]].index + 1] ]

\* with blocks = FaceBlocks(b): the vertex offset o of the i-th face (the vertices
\* appended by the faces before it), and the part of the index buffer 'indices'
\* written while that face was processed
FaceOffset(blocks, i) == blocks[i].vertices
FaceIndices(indices, blocks, i) ==
  SubSeq(indices, blocks[i].indices + 1, blocks[i + 1].indices)

\* the fan (o, o+i, o+i+1) for i = 1..n-2
Fan(o, n) ==
  [ k \in 1..(3 * (n - 2)) |->
      IF (k - 1) % 3 = 0 THEN o ELSE o + ((k - 1) \div 3) + ((k - 1) % 3) ]

\* ear clipping returns an empty result for the i-th face of b
EmptyTriangulation(b, i) ==
  earcut(earcutPath(FacePositions(b, i), getFaceNormalAndProjection(FacePositions(b, i)))) = <<>>

FanOnFailure(indices, b, blocks) ==
  \A i \in DOMAIN b.faces :
    FaceDegree(b, i) >= 3 =>
      /\ FaceIndices(indices, blocks, i) # <<>>
      /\ EmptyTriangulation(b, i) =>
           FaceIndices(indices, blocks, i) = Fan(FaceOffset(blocks, i), FaceDegree(b, i))

\* C13: a face with n >= 3 vertices whose triangulation is empty gets the n-2 fan
\* triangles (o, o+i, o+i+1), and no face with n >= 3 vertices contributes zero
\* triangles.
C13_FanFallback ==
  LastReturned => FanOnFailure(tessellated.data.geometry.indices, LastMesh, FaceBlocks(LastMesh))

\* four coplanar points whose corners all turn the same way
ConvexPlanarQuad(ps) ==
  /\ Len(ps) = 4
  /\ LET n == VCross(VSub(ps[2], ps[1]), VSub(ps[3], ps[1]))
         turn(k) == VCross(VSub(ps[(k % 4) + 1], ps[k]), VSub(ps[((k + 1) % 4) + 1], ps[(k % 4) + 1]))
     IN /\ VDot(n, VSub(ps[4], ps[1])) = 0
        /\ \A k \in 1..4 : VDot(turn(k), n) > 0

\* the indices of a face are all in [o, o + degree)
InOwnBlock(faceIndices, o, degree) ==
  \A k \in DOMAIN faceIndices : faceIndices[k] >= o /\ faceIndices[k] < o + degree

OwnBlocks(geometry, b, blocks) ==
  /\ Len(geometry.indices) = blocks[Len(b.faces) + 1].indices
  /\ Len(geometry.indices) % 3 = 0
  /\ \A k \in DOMAIN geometry.indices :
       geometry.indices[k] >= 0 /\ geometry.indices[k] * 3 < Len(geometry.positions)
  /\ \A i \in DOMAIN b.faces :
       /\ InOwnBlock(FaceIndices(geometry.indices, blocks, i), FaceOffset(blocks, i),
                     FaceDegree(b, i))
       /\ ConvexPlanarQuad(FacePositions(b, i)) =>
            Len(FaceIndices(geometry.indices, blocks, i)) = 6

\* C14: every index emitted for a face lies in the face's own block
\* [o, o + degree) of the position buffer, so the index buffer refers only to
\* positions that exist and its length is a multiple of 3; a convex planar quad
\* face gets exactly 2 triangles (6 indices).
C14_IndicesInOwnBlock ==
  LastReturned => OwnBlocks(tessellated.data.geometry, LastMesh, FaceBlocks(LastMesh))

LaterQuadAndLargerFace(indices, b, blocks) ==
  /\ \E i \in DOMAIN b.faces :
       /\ FaceOffset(blocks, i) > 0
       /\ ConvexPlanarQuad(FacePositions(b, i))
       /\ Len(FaceIndices(indices, blocks, i)) = 6
  /\ \E i \in DOMAIN b.faces : FaceDegree(b, i) > 4

C14_Witness ==
  /\ LastReturned
  /\ LaterQuadAndLargerFace(tessellated.data.geometry.indices, LastMesh, FaceBlocks(LastMesh))

\* the triangles (numbered from 0 along the index buffer) whose three indices lie
\* in the vertex block of the i-th face
TrianglesInBlock(indices, b, blocks, i) ==
  { tr \in 0..((Len(indices) \div 3) - 1) :
      InOwnBlock(SubSeq(indices, 3 * tr + 1, 3 * tr + 3), FaceOffset(blocks, i), FaceDegree(b, i)) }

MappingListsTriangles(data, b, blocks) ==
  /\ DOMAIN data.faceFacetMapping = { b.F[b.faces[i]].index : i \in DOMAIN b.faces }
  /\ \A i \in DOMAIN b.faces :
       /\ Range(data.faceFacetMapping[b.F[b.faces[i]].index])
            = TrianglesInBlock(data.geometry.indices, b, blocks, i)
       /\ FaceIndices(data.geometry.indices, blocks, i) # <<>> =>
            data.faceFacetMapping[b.F[b.faces[i]].index] # <<>>
  /\ \A tr \in 0..((Len(data.geometry.indices) \div 3) - 1) :
       Cardinality({ i \in DOMAIN b.faces :
                       tr \in Range(data.faceFacetMapping[b.F[b.faces[i]].index]) }) = 1

\* C15: the returned faceFacetMapping has an entry for every face index, the
\* entry of a face lists exactly the triangles whose three indices lie in that
\* face's vertex block, every emitted triangle is listed under exactly one face,
\* and a face that contributed triangles has a non-empty entry.
C15_FaceFacetMapping ==
  LastReturned => MappingListsTriangles(tessellated.data, LastMesh, FaceBlocks(LastMesh))

\* the vertices one listed half-edge away from v: the ends of the half-edges that
\* start at v and the origins of those that end at v
TopologicalNeighbours(b, v) ==
  { b.H[b.H[h].next].vertex : h \in { g \in Range(b.halfEdges) : b.H[g].vertex = v } }
    \cup { b.H[h].vertex : h \in { g \in Range(b.halfEdges) : b.H[b.H[g].next].vertex = v } }

\* findVertexBelow returned a vertex (kept as vertex2), or returned null
ReturnedBelow == last.op = "halfedge" /\ last.vertex2 # 0
ReturnedNull == last.op = "halfedge" /\ last.outcome = "noBelow"

DirectlyBelow(b, v, w) ==
  /\ b.positions[b.V[w].index + 1][1] = b.positions[b.V[v].index + 1][1]
  /\ b.positions[b.V[w].index + 1][3] = b.positions[b.V[v].index + 1][3]
  /\ PosY(b, w) < PosY(b, v)

\* the position/cell variant took a companion vertex to remove with the selected one
CompanionTaken == last.op = "cells" /\ last.vertex2 # 0

\* C18: in the position/cell variant the companion removed with the selected
\* vertex is directly below it (same X and Z, lower Y) and is the highest of the
\* vertices directly below it.
C18_CompanionDirectlyBelow ==
  CompanionTaken =>
    /\ DirectlyBelow(last.pre, last.vertex1, last.vertex2)
    /\ \A w \in Range(last.pre.vertices) :
         DirectlyBelow(last.pre, last.vertex1, w) =>
           PosY(last.pre, w) <= PosY(last.pre, last.vertex2)

\* the sequence s without v
Without(s, v) == FilterSeq(s, Range(s) \ { v })

\* face f of the mesh before the deletion is still listed, one vertex shorter,
\* without v, its other vertices in the same cyclic order
SurvivesWithout(f, v) ==
  /\ f \in Range(brep.faces)
  /\ getFaceVertices(brep, f).st = "ok"
  /\ Len(getFaceVertices(brep, f).val) = Len(getFaceVertices(last.pre, f).val) - 1
  /\ v \notin Range(getFaceVertices(brep, f).val)
  /\ IsRotation(getFaceVertices(brep, f).val, Without(getFaceVertices(last.pre, f).val, v))

\* the faces around either vertex of the pair, before the deletion
IncidentToPair == IncidentFaces(last.pre, last.vertex1) \cup IncidentFaces(last.pre, last.vertex2)

\* C19: after a successful half-edge deletion the top face survives without v1
\* and the bottom face without v2, each one vertex shorter with its other vertices
\* in the same cyclic order; every other face around v1 or v2 is gone from the face
\* list; every face around neither vertex is still listed with the same half-edge
\* loop.
C19_TopAndBottomSurvive ==
  HalfEdgeSucceeded =>
    /\ last.tr.topFace \in TopAndBottom(last.pre, last.vertex1, last.vertex2)
    /\ last.tr.bottomFace \in TopAndBottom(last.pre, last.vertex1, last.vertex2)
    /\ SurvivesWithout(last.tr.topFace, last.vertex1)
    /\ SurvivesWithout(last.tr.bottomFace, last.vertex2)
    /\ \A f \in IncidentToPair \ { last.tr.topFace, last.tr.bottomFace } :
         f \notin Range(brep.faces)
    /\ \A f \in Range(last.pre.faces) \ IncidentToPair :
         /\ f \in Range(brep.faces)
         /\ brep.F[f].halfEdge = last.pre.F[f].halfEdge
         /\ FaceLoop(brep, f) = FaceLoop(last.pre, f)
         /\ getFaceVertices(brep, f) = getFaceVertices(last.pre, f)

C19_Witness ==
  /\ HalfEdgeSucceeded
  /\ Len(getFaceVertices(last.pre, last.tr.topFace).val) >= 4
  /\ Cardinality(IncidentToPair) = 4
  /\ Cardinality(Range(last.pre.faces) \ IncidentToPair) >= 2

\* the two vertices edge e joins, read from its half-edge
EdgeEnds(b, e) == { b.H[b.E[e].halfEdge].vertex, b.H[b.H[b.E[e].halfEdge].next].vertex }

\* C20: the cap loop takes the edge that already joins a and b, an edge made by
\* the top or bottom face update included, so after a successful half-edge
\* deletion no two listed edges join the same pair of vertices.
C20_NoParallelEdges ==
  HalfEdgeSucceeded =>
    \A e1, e2 \in Range(brep.edges) :
      e1 # e2 => EdgeEnds(brep, e1) # EdgeEnds(brep, e2)

\* the axis a projection drops: the one of 1 (x), 2 (y), 3 (z) it does not keep
DroppedAxis(projectionIndices) == CHOOSE a \in 1..3 : a \notin Range(projectionIndices)

\* n = (p1 - p0) x (p2 - p0) of the first three positions
FirstNormal(positions) ==
  VCross(VSub(positions[2], positions[1]), VSub(positions[3], positions[1]))

ProjectionCalled == applied.fn = "getFaceNormalAndProjection"

\* C21: the projection keeps XZ for fewer than 3 points or a zero normal;
\* otherwise it drops an axis with the largest |n| component: Y when |ny| >= |nx|
\* and |ny| >= |nz|, else Z when |nz| >= |nx|, else X.
C21_ProjectionPlane ==
  ProjectionCalled =>
    IF Len(applied.positions) < 3 \/ FirstNormal(applied.positions) = VZero
    THEN applied.result = << 1, 3 >>
    ELSE LET n == FirstNormal(applied.positions)
             d == DroppedAxis(applied.result)
         IN /\ Range(applied.result) \subseteq 1..3
            /\ applied.result[1] < applied.result[2]
            /\ \A a \in 1..3 : Abs(n[d]) >= Abs(n[a])
            /\ d = (IF Abs(n[2]) >= Abs(n[1]) /\ Abs(n[2]) >= Abs(n[3]) THEN 2
                    ELSE IF Abs(n[3]) >= Abs(n[1]) THEN 3 ELSE 1)

C21_Witness ==
  /\ ProjectionCalled
  /\ Len(applied.positions) = 4
  /\ Abs(FirstNormal(applied.positions)[1]) > Abs(FirstNormal(applied.positions)[2])
  /\ Abs(FirstNormal(applied.positions)[1]) > Abs(FirstNormal(applied.positions)[3])
  /\ applied.result = << 2, 3 >>

\* the points of ps away from the first one, and those not collinear with the
\* first point and ps[i2]
AwayFromFirst(ps) == { i \in 2..Len(ps) : ps[i] # ps[1] }
OffTheLine(ps, i2) ==
  { i \in 2..Len(ps) : VCross(VSub(ps[i2], ps[1]), VSub(ps[i], ps[1])) # VZero }

\* u is the direction of c: parallel, same sense, components without common factor
IsDirectionOf(u, c) ==
  /\ VCross(u, c) = VZero
  /\ VDot(u, c) > 0
  /\ Gcd(Gcd(u[1], u[2]), u[3]) = 1

PlaneNormalCalled == applied.fn = "calculatePlaneNormal"

CountIn(s, x) == Cardinality({ k \in DOMAIN s : s[k] = x })

OrderCalled == applied.fn = "orderVerticesByAngle"

\* C23: orderVerticesByAngle returns a permutation of its index list (each index
\* as often as it was given), and the list itself for fewer than 3 indices.
C23_OrderIsPermutation ==
  OrderCalled =>
    /\ Len(applied.result) = Len(applied.vertexIndices)
    /\ \A x \in Range(applied.vertexIndices) \cup Range(applied.result) :
         CountIn(applied.result, x) = CountIn(applied.vertexIndices, x)
    /\ Len(applied.vertexIndices) < 3 => applied.result = applied.vertexIndices

\* a call that reordered a list holding an index twice, on collinear points
C23_Witness ==
  /\ OrderCalled
  /\ Len(applied.vertexIndices) = 4
  /\ Cardinality(Range(applied.vertexIndices)) = 3
  /\ applied.result # applied.vertexIndices
  /\ VCross(VSub(applied.positions[2], applied.positions[1]),
            VSub(applied.positions[3], applied.positions[1])) = VZero

\* ------------------------------------------------------------- the cell rebuild
\* the last call rebuilt a cell list (lines 371-418 were reached)
CellsRebuilt == last.op = "cells" /\ last.newCells # <<>>

\* the position indices of the removed vertices: the selected one and the one below
RemovedIndices ==
  { last.pre.V[last.vertex1].index }
    \cup (IF last.vertex2 = 0 THEN {} ELSE { last.pre.V[last.vertex2].index })

\* the cells of the mesh the call was made on, as lists of position indices
OldCells ==
  { [ k \in DOMAIN getFaceVertices(last.pre, f).val |->
        last.pre.V[getFaceVertices(last.pre, f).val[k]].index ] : f \in Range(last.pre.faces) }

\* a cell with the removed indices filtered out, in the old and in the new numbering
Filtered(c) == FilterSeq(c, Range(c) \ RemovedIndices)

Renumbered(c) ==
  [ k \in DOMAIN Filtered(c) |->
      IndexMap(Len(last.pre.positions), RemovedIndices)[Filtered(c)[k]] ]

\* the new list without its last cell, and its last cell (made of the boundary)
KeptCells == SubSeq(last.newCells, 1, Len(last.newCells) - 1)

BoundaryCell == last.newCells[Len(last.newCells)]

\* C24: the new cell list is every old cell with the removed vertices filtered
\* out that keeps at least 3 vertices, no two of them on the same vertex set,
\* plus one cell made of the boundary; every cell of the list, the boundary
\* cell included, has at least 3 vertices.
C24_NewCellList ==
  CellsRebuilt =>
    /\ \A c \in OldCells :
         Len(Filtered(c)) >= 3 => \E k \in DOMAIN KeptCells : IsRotation(KeptCells[k], Renumbered(c))
    /\ \A k \in DOMAIN KeptCells :
         \E c \in OldCells : Len(Filtered(c)) >= 3 /\ IsRotation(KeptCells[k], Renumbered(c))
    /\ \A i, j \in DOMAIN KeptCells : i # j => Range(KeptCells[i]) # Range(KeptCells[j])
    /\ BoundaryCell = [ k \in DOMAIN last.tr.ordered |->
                          IndexMap(Len(last.pre.positions), RemovedIndices)[last.tr.ordered[k]] ]
    /\ \A k \in DOMAIN last.newCells : Len(last.newCells[k]) >= 3

\* the old-to-new index map of the last call, and the rows it keeps
LastIndexMap == IndexMap(Len(last.pre.positions), RemovedIndices)

Surviving == (0..(Len(last.pre.positions) - 1)) \ RemovedIndices

\* C25: the old-to-new index map is an order-preserving bijection from the
\* surviving position indices onto 0..M-1, every entry of every new cell (the
\* boundary cell included) is an index in 0..M-1, and the new position row
\* map(i) is the old row i.
C25_IndexRemap ==
  CellsRebuilt =>
    /\ { LastIndexMap[i] : i \in Surviving } = 0..(Cardinality(Surviving) - 1)
    /\ \A i, j \in Surviving : i < j => LastIndexMap[i] < LastIndexMap[j]
    /\ \A k \in DOMAIN last.newCells : \A j \in DOMAIN last.newCells[k] :
         last.newCells[k][j] \in 0..(Cardinality(Surviving) - 1)
    /\ last.outcome = "ok" =>
         /\ Len(brep.positions) = Cardinality(Surviving)
         /\ \A i \in Surviving : brep.positions[LastIndexMap[i] + 1] = last.pre.positions[i + 1]

\* the surviving vertices of cell c that stand next to a removed one in its cycle
NextToRemoved(c) ==
  { c[k] : k \in { k \in DOMAIN c : \/ c[(k % Len(c)) + 1] \in RemovedIndices
                                    \/ c[((k + Len(c) - 2) % Len(c)) + 1] \in RemovedIndices } }
    \ RemovedIndices

\* C26: the boundary set of the new cell is exactly the set of vertices that are
\* cyclically adjacent, in some cell, to a removed vertex and are not removed.
C26_BoundarySet ==
  CellsRebuilt => Range(last.tr.ordered) = UNION { NextToRemoved(c) : c \in OldCells }

\* ------------------------------------------------------------- the page's modes
\* C27: whatever is clicked, edit mode implies the 2D mode, and the step that
\* switches edit mode off leaves the camera in 3D (perspective) mode.
C27_EditModeIs2D ==
  /\ [](isEditMode => (cameraManager.is2DMode /\ cameraManager.camera.mode = "orthographic"))
  /\ [][(isEditMode /\ ~isEditMode')
          => (~cameraManager'.is2DMode /\ cameraManager'.camera.mode = "perspective")]_vars

\* edit mode was on (the mesh got its hover actions), is off again and the
\* camera is a perspective camera
C27_Witness ==
  /\ ~isEditMode
  /\ sceneMesh \in hoverActions
  /\ ~cameraManager.is2DMode
  /\ cameraManager.camera.mode = "perspective"

\* C28: while edit mode is off no mesh is selected and there is no vertex
\* marker, and a pointer-down event changes nothing of the scene or the managers.
C28_EditModeOffIsInert ==
  /\ [](~isEditMode => (selectedMesh = 0 /\ vertexMarkers = << >>))
  /\ [][(~isEditMode /\ (pointerDownReturn \/ pointerDownMesh \/ pointerDownMarker))
          => UNCHANGED << variant, keepFirst, brep, sceneMesh, selectedMesh, calls, tessellator,
                          tessellated, applied, isEditMode, cameraManager, vertexMarkers,
                          highlightLayer, hoverActions >>]_vars

\* a pointer-down event came while edit mode was off, after a deletion made in
\* edit mode
C28_Witness ==
  /\ ~isEditMode
  /\ last.op = "pointerDown"
  /\ last.outcome = "editModeOff"
  /\ sceneMesh > 1

\* C29: no mesh is in the highlight layer while edit mode is off (a mesh
\* highlighted by hovering does not stay highlighted once edit mode is off).
C29_NoHighlightOutsideEditMode == ~isEditMode => highlightLayer = {}

\* the vertices of the BREP in the scene whose Y is the largest Y
TopVertices ==
  { v \in Range(brep.vertices) : brep.positions[brep.V[v].index + 1][2] = MaxY(brep.positions) }

\* the markers that map to vertex v
MarkersOf(v) == { k \in DOMAIN vertexMarkers : vertexMarkers[k].vertex = v }

=============================================================================
